---- MODULE Spec2Model ----
(***************************************************************************)
(* Synchronization of a primary document store (MongoDB) and a vector      *)
(* search index (Pinecone) by the storage managers of career-agent.        *)
(*                                                                         *)
(* Three wirings of manager / store adapter / index adapter are modelled,  *)
(* selected by the variable kind:                                          *)
(*   "generic"  BaseGenericStorageManager + MongoDBStorage                 *)
(*              + PineconeSearchIndex      (storage/generic)               *)
(*   "article"  BaseGenericStorageManager (ArticleManager)                 *)
(*              + ArticleMongoDBStorage + ArticlePineconeIndex             *)
(*   "company"  CompanyStorageManager (on BaseStorageManager)              *)
(*              + MongoDBCompanyStorage + PineconeCompanyIndex             *)
(* Every manager call is one action.  The backends' answers (store up or   *)
(* down, embedding failure, when an upserted vector becomes visible, the   *)
(* ranking of a query) are inputs drawn from small sets.  lastOp records   *)
(* what the last call did: its arguments, its outcome and the sequence of  *)
(* backend calls it made.                                                  *)
(***************************************************************************)
EXTENDS Integers, Sequences, FiniteSets, TLC

\* ---------------------------------------------------------------- bounds
\* number of entities ever created (ids are 1..MaxIds, never reused)
MaxIds == 2
\* largest limit passed to search / find_similar
MaxLimit == 2

\* ------------------------------------------------------- program constants
\* verification attempts of PineconeSearchIndex.index
GenericMaxRetries == 3
\* verification attempts of ArticlePineconeIndex.index
ArticleMaxRetries == 5
\* verification attempts of PineconeCompanyIndex.add_to_index
CompanyMaxRetries == 5

Kinds == {"generic", "article", "company"}

Ids == 1..MaxIds

\* title of an Article / name+description of a Company; "" is the empty text
Titles == {"", "a", "b"}

\* the tags an Article can carry
Tags == {"x", "y"}

\* an entity as the caller hands it to a manager: its texts, its tag list
\* (Article.tags) and its evaluation list (Company.evaluations, each
\* evaluation given by its match_score in tenths).  The synchronization
\* specification Spec varies the texts only.
Entity == [title : Titles, tags : {<<>>}, evaluations : {<<>>}]

VARIABLES
    kind,     \* which manager / adapters are wired together
    store,    \* Primary Store collection: id -> stored document
    nextId,   \* the id the next insert_one generates
    index,    \* Search Index namespace: id -> [meta, st]
    lastOp,   \* the last manager call and what it did
    deleted,  \* the ids for which Manager.delete has returned True
    \* -- the repositories of src/repositories (CompanyRepository, JobRepository)
    clock,      \* what datetime.now() reads
    companies,  \* companies collection: id -> document
    jobs,       \* jobs collection: id -> document
    nextRepoId, \* the id the next insert_one of a repository generates
    repoOp,     \* the last repository call and how it ended
    dbName,     \* db.name of the handle the repositories are bound to
    \* -- the connection singleton of src/repositories/database.py (MongoDB)
    pc,          \* where each get_instance() caller stands
    lockOwner,   \* the caller holding MongoDB._lock (0: nobody)
    lockWaiters, \* the callers waiting for MongoDB._lock, first come first
    instance,    \* MongoDB._instance: a handle, or 0 for None
    creators,    \* the callers that constructed a handle; handle h is creators[h]
    indexRuns,   \* how many times _create_indexes has been started
    got,         \* what get_instance() returned to each caller (0: None)
    closed,      \* the handles whose connection has been closed
    resets,      \* how many reset_instance() calls have run
    callOrder,   \* the callers in the order they called get_instance()
    isTest,      \* the is_test flag each caller passed to get_instance()
    \* -- the Primary Store adapters called directly
    crudOp,      \* the last adapter call, how it ended, and what create was given
    \* -- the profile manager
    capabilities, \* what the profile data source holds
    vectorStore,  \* ProfileManager.vector_store: "None" until it is built
    profOp,       \* the last ProfileManager call and its answer
    \* -- one index() call, step by step
    poll,         \* where the call is, the attempt it is at, what it observed
    \* -- manager calls running concurrently
    tasks,        \* per coroutine: the call it runs, its id, and where it is
    syncStore,    \* ids held by the Primary Store
    syncIndex,    \* ids held by the Search Index
    syncNextId,   \* the id the next insert generates
    indexFailed,  \* whether an index() or delete_from_index() call has failed
    \* -- one scrape() call of the ZenRows scraper
    scrape        \* the call, the client requests it made, and how it ended

\* the state of the storage managers
vars == <<kind, store, nextId, index, lastOp, deleted>>

\* the state of the repositories
repoVars == <<clock, companies, jobs, nextRepoId, repoOp, dbName>>

\* the state of the connection singleton
dbVars == <<pc, lockOwner, lockWaiters, instance, creators, indexRuns, got, closed,
            resets, callOrder, isTest>>

\* the record of the adapter calls
crudVars == <<crudOp>>

\* the state of the profile manager
profVars == <<capabilities, vectorStore, profOp>>

\* the state of the index() call that is followed step by step
pollVars == <<poll>>

\* the state of the concurrent manager calls
syncVars == <<tasks, syncStore, syncIndex, syncNextId, indexFailed>>

\* the state of the scraper
scrapeVars == <<scrape>>

allVars == <<vars, repoVars, dbVars, crudVars, profVars, pollVars, syncVars, scrapeVars>>

\* ------------------------------------------------------------- entities

\* a validate() that accepts every entity (what C1 is tested against)
ValidateAccepts(e) == TRUE

\* Article.validate: required text fields are non-empty
Validate(e) == e.title # ""

\* the managers that call entity.validate() before any backend call
Validates(k) == k \in {"generic", "article"}

\* the metadata a manager derives for indexing (always from the whole entity)
MetaOf(k, e) ==
    [title |-> e.title,
     \* Article.get_search_metadata carries the tags; the company metadata and
     \* the metadata PineconeSearchIndex.index builds itself have none
     tags |-> IF k = "article" THEN e.tags ELSE <<>>,
     entity_type |-> IF k = "company" THEN "company" ELSE "article"]

\* ------------------------------------------------------ primary store

\* insert_one: the document is stored under a fresh id
StoreCreate(s, id, e) == [i \in (DOMAIN s) \cup {id} |-> IF i = id THEN e ELSE s[i]]

\* find_one: the stored document, with its id, or absent
StoreHas(s, id) == id \in DOMAIN s

StoreRead(s, id) ==
    [id |-> id, title |-> s[id].title, tags |-> s[id].tags,
     evaluations |-> s[id].evaluations]

\* an update that reports a modification for any id (what C7 is tested against)
StoreUpdateAlwaysModified(s, id, e) == TRUE

\* update_one {"$set": doc}: returns modified_count > 0
StoreUpdateModified(s, id, e) == StoreHas(s, id) /\ s[id] # e

StoreUpdate(s, id, e) ==
    IF StoreHas(s, id) THEN [i \in DOMAIN s |-> IF i = id THEN e ELSE s[i]] ELSE s

\* a delete that reports success and leaves the document (what C9 is tested
\* against)
StoreDeleteKeeps(s, id) == s

\* delete_one: returns deleted_count > 0
StoreDelete(s, id) == [i \in (DOMAIN s) \ {id} |-> s[i]]

\* -------------------------------------------------------- search index

MaxRetries(k) ==
    CASE k = "generic" -> GenericMaxRetries
      [] k = "article" -> ArticleMaxRetries
      [] OTHER -> CompanyMaxRetries

\* what the backend answers to one index() call:
\*   embedOk   the Embedding Provider returned a vector
\*   upsertOk  the upsert was accepted
\*   seenAt    the verification attempt from which the new vector is
\*             visible (0: not during this call)
\*   how       "fetch": fetch-by-id sees it; "query": fetch does not, the
\*             top-1 query does
\*   errAt     the verification attempt whose backend call raises (0: none)
\* An id that was retrievable before the call is seen by the first fetch.
\* Answers that differ only after the attempt that ends the loop are left out.
IndexIO(k, wasVisible) ==
    {[embedOk |-> FALSE, upsertOk |-> TRUE, seenAt |-> 0, how |-> "fetch", errAt |-> 0],
     [embedOk |-> TRUE, upsertOk |-> FALSE, seenAt |-> 0, how |-> "fetch", errAt |-> 0]}
    \cup
    {io \in [embedOk : {TRUE}, upsertOk : {TRUE},
             seenAt : IF wasVisible THEN {1} ELSE 0..MaxRetries(k),
             how : IF k = "company" /\ ~wasVisible THEN {"fetch", "query"} ELSE {"fetch"},
             errAt : {0, 1, MaxRetries(k)}] :
        /\ io.seenAt = 0 => io.how = "fetch"
        /\ io.seenAt # 0 => io.errAt <= io.seenAt}

\* what verification attempt a (1-based) observes
Observe(io, wasVisible, a) ==
    IF a = io.errAt THEN "error"
    ELSE IF wasVisible THEN "fetch"
    ELSE IF io.seenAt # 0 /\ a >= io.seenAt THEN io.how
    ELSE "unseen"

\* the verification loop of index(): the value the call ends with, the number
\* of attempts made and the observation that confirmed the id
RECURSIVE VerifyLoop(_, _, _, _)
VerifyLoop(k, io, wasVisible, a) ==
    IF a > MaxRetries(k)
    THEN \* attempts used up
         [ret |-> IF k = "generic" THEN "raise" ELSE "False",
          attempts |-> MaxRetries(k), seenBy |-> "none"]
    ELSE LET o == Observe(io, wasVisible, a) IN
         CASE o = "fetch" ->
                [ret |-> IF k = "generic" THEN "None" ELSE "True",
                 attempts |-> a, seenBy |-> "fetch"]
           [] o = "query" ->
                \* only add_to_index falls back to a top-1 query
                [ret |-> "True", attempts |-> a, seenBy |-> "query"]
           [] o = "error" ->
                IF k = "generic"
                THEN \* no inner try: the outer handler re-raises StorageError
                     [ret |-> "raise", attempts |-> a, seenBy |-> "none"]
                ELSE IF a = MaxRetries(k)
                THEN \* re-raised on the last attempt, outer handler returns False
                     [ret |-> "False", attempts |-> a, seenBy |-> "none"]
                ELSE VerifyLoop(k, io, wasVisible, a + 1)
           [] OTHER -> VerifyLoop(k, io, wasVisible, a + 1)

IndexVisible(ix, id) == id \in DOMAIN ix /\ ix[id].st = "visible"

IndexUpsert(ix, id, meta, st) ==
    [i \in (DOMAIN ix) \cup {id} |-> IF i = id THEN [meta |-> meta, st |-> st] ELSE ix[i]]

\* an index() that upserts a vector whatever the Embedding Provider did
\* (what C27 is tested against)
IndexCallZeroVector(k, ix, id, meta, io) ==
    [ret |-> IF k = "generic" THEN "raise" ELSE "False",
     upserted |-> TRUE, seenBy |-> "none", attempts |-> 0,
     embedFailed |-> ~io.embedOk, index |-> IndexUpsert(ix, id, meta, "pending")]

\* index(id, entity, metadata): embed, upsert, verify.  Yields the call's
\* value (ret), whether a vector was upserted, how the id was confirmed, the
\* attempts made, whether the Embedding Provider failed and the index
\* afterwards.
IndexCall(k, ix, id, meta, io) ==
    IF ~io.embedOk \/ ~io.upsertOk
    THEN [ret |-> IF k = "generic" THEN "raise" ELSE "False",
          upserted |-> FALSE, seenBy |-> "none", attempts |-> 0,
          embedFailed |-> ~io.embedOk, index |-> ix]
    ELSE LET wasVisible == IndexVisible(ix, id)
             v == VerifyLoop(k, io, wasVisible, 1)
             vis == wasVisible \/ (io.seenAt # 0 /\ io.seenAt <= v.attempts)
         IN  [ret |-> v.ret, upserted |-> TRUE, seenBy |-> v.seenBy,
              attempts |-> v.attempts, embedFailed |-> FALSE,
              index |-> IndexUpsert(ix, id, meta, IF vis THEN "visible" ELSE "pending")]

NoIdx == [ret |-> "none", upserted |-> FALSE, seenBy |-> "none", attempts |-> 0,
          embedFailed |-> FALSE]

IdxOf(r) == [ret |-> r.ret, upserted |-> r.upserted, seenBy |-> r.seenBy,
             embedFailed |-> r.embedFailed,
             attempts |-> r.attempts]

\* ------------------------------------------------------------ lastOp

NoEntity == [title |-> "-", tags |-> <<>>, evaluations |-> <<>>]

\* the record of a manager call: operation, id argument (or the id create
\* returned), entity argument, limit argument, how the call ended (outcome:
\* "ok" or the exception class raised to the caller; details: why), the
\* backend calls made in order, what the index adapter call did (idx), the
\* ids the index returned (hits) and the entities handed back (result);
\* tags is the tag list passed to a tag mutation, score the match_score of the
\* evaluation passed to add_evaluation
NoOp ==
    [op |-> "init", id |-> 0, arg |-> NoEntity, tags |-> <<>>, score |-> 0, limit |-> 0,
     outcome |-> "none", details |-> "none", trace |-> <<>>,
     idx |-> NoIdx, hits |-> <<>>, result |-> <<>>]

Init ==
    /\ kind \in Kinds
    /\ store = <<>>
    /\ nextId = 1
    /\ index = <<>>
    /\ lastOp = NoOp
    /\ deleted = {}

\* ------------------------------------------------------------ create

\* a create that indexes the id it expects before asking the Primary Store
\* for it, whether or not the store then accepts the document (what C8 is
\* tested against)
CreateIndexesFirst(e, storeOk, io) ==
    /\ nextId <= MaxIds
    /\ UNCHANGED <<kind, deleted>>
    /\ LET id == nextId
           r == IndexCall(kind, index, id, MetaOf(kind, e), io)
       IN  /\ index' = r.index
           /\ IF storeOk
              THEN /\ store' = StoreCreate(store, id, e)
                   /\ nextId' = nextId + 1
                   /\ lastOp' = [NoOp EXCEPT !.op = "create", !.id = id, !.arg = e,
                                   !.outcome = "ok",
                                   !.trace = << <<"index.index", id>>, <<"store.create", id>> >>,
                                   !.idx = IdxOf(r)]
              ELSE /\ UNCHANGED <<store, nextId>>
                   /\ lastOp' = [NoOp EXCEPT !.op = "create", !.arg = e,
                                   !.outcome = "StorageOperationError",
                                   !.details = "store",
                                   !.trace = << <<"index.index", id>>, <<"store.create", 0>> >>,
                                   !.idx = IdxOf(r)]

\* BaseGenericStorageManager.create / CompanyStorageManager.create
Create(e, storeOk, io) ==
    /\ nextId <= MaxIds
    /\ UNCHANGED <<kind, deleted>>
    /\ IF Validates(kind) /\ ~Validate(e)
       THEN /\ lastOp' = [NoOp EXCEPT !.op = "create", !.arg = e,
                            !.outcome = "StorageOperationError",
                            !.details = "Entity validation failed"]
            /\ UNCHANGED <<store, nextId, index>>
       ELSE IF ~storeOk
       THEN \* storage.create raised StorageError: nothing inserted
            /\ lastOp' = [NoOp EXCEPT !.op = "create", !.arg = e,
                            !.outcome = "StorageOperationError",
                            !.details = "store",
                            !.trace = << <<"store.create", 0>> >>]
            /\ UNCHANGED <<store, nextId, index>>
       ELSE LET id == nextId
                r == IndexCall(kind, index, id, MetaOf(kind, e), io)
            IN  /\ store' = StoreCreate(store, id, e)
                /\ nextId' = nextId + 1
                /\ index' = r.index
                /\ lastOp' = [NoOp EXCEPT !.op = "create", !.id = id, !.arg = e,
                                !.outcome = IF r.ret = "raise"
                                            THEN "StorageOperationError" ELSE "ok",
                                !.details = IF r.ret = "raise" THEN "index" ELSE "none",
                                !.trace = << <<"store.create", id>>, <<"index.index", id>> >>,
                                !.idx = IdxOf(r)]

\* ------------------------------------------------------------ update

\* BaseGenericStorageManager.update (the company manager has no update)
Update(id, e, storeOk, io) ==
    /\ Validates(kind)
    /\ UNCHANGED <<kind, nextId, deleted>>
    /\ IF ~Validate(e)
       THEN /\ lastOp' = [NoOp EXCEPT !.op = "update", !.id = id, !.arg = e,
                            !.outcome = "StorageOperationError",
                            !.details = "Entity validation failed"]
            /\ UNCHANGED <<store, index>>
       ELSE IF ~storeOk
       THEN /\ lastOp' = [NoOp EXCEPT !.op = "update", !.id = id, !.arg = e,
                            !.outcome = "StorageOperationError",
                            !.details = "store",
                            !.trace = << <<"store.update", id>> >>]
            /\ UNCHANGED <<store, index>>
       ELSE IF ~StoreUpdateModified(store, id, e)
       THEN \* storage.update returned False
            /\ lastOp' = [NoOp EXCEPT !.op = "update", !.id = id, !.arg = e,
                            !.outcome = "EntityNotFoundError",
                            !.details = "not found",
                            !.trace = << <<"store.update", id>> >>]
            /\ UNCHANGED <<store, index>>
       ELSE LET r == IndexCall(kind, index, id, MetaOf(kind, e), io)
            IN  /\ store' = StoreUpdate(store, id, e)
                /\ index' = r.index
                /\ lastOp' = [NoOp EXCEPT !.op = "update", !.id = id, !.arg = e,
                                !.outcome = IF r.ret = "raise"
                                            THEN "StorageOperationError" ELSE "ok",
                                !.details = IF r.ret = "raise" THEN "index" ELSE "none",
                                !.trace = << <<"store.update", id>>, <<"index.index", id>> >>,
                                !.idx = IdxOf(r)]

\* ------------------------------------------------------------ delete

\* what the backend answers to a delete of a vector:
\*   "applied"  the vector is gone when the call returns
\*   "lagging"  the delete is accepted, the vector is still served (when the
\*              backend applies it later the index is as after "applied")
\*   "error"    the backend call raises
DeleteIO == {"applied", "lagging", "error"}

IndexRemove(ix, id) == [i \in (DOMAIN ix) \ {id} |-> ix[i]]

\* PineconeSearchIndex.delete_from_index (raises StorageError),
\* ArticlePineconeIndex.delete_from_index (True / False) and
\* PineconeCompanyIndex.delete (True / False; its verification fetch names no
\* namespace, so it never finds the id and succeeds on the first check)
IndexDeleteCall(k, ix, id, d) ==
    IF d = "error"
    THEN [ret |-> IF k = "generic" THEN "raise" ELSE "False", index |-> ix]
    ELSE [ret |-> IF k = "generic" THEN "None" ELSE "True",
          index |-> IF d = "applied" THEN IndexRemove(ix, id) ELSE ix]

\* BaseGenericStorageManager.delete / CompanyStorageManager.delete
Delete(id, storeOk, d) ==
    /\ UNCHANGED <<kind, nextId>>
    /\ IF ~storeOk
       THEN /\ lastOp' = [NoOp EXCEPT !.op = "delete", !.id = id,
                            !.outcome = "StorageOperationError", !.details = "store",
                            !.trace = << <<"store.delete", id>> >>]
            /\ UNCHANGED <<store, index, deleted>>
       ELSE IF ~StoreHas(store, id)
       THEN \* storage.delete returned False
            /\ lastOp' = [NoOp EXCEPT !.op = "delete", !.id = id,
                            !.outcome = IF kind = "company" THEN "StorageOperationError"
                                        ELSE "EntityNotFoundError",
                            !.details = "not found",
                            !.trace = << <<"store.delete", id>> >>]
            /\ UNCHANGED <<store, index, deleted>>
       ELSE LET r == IndexDeleteCall(kind, index, id, d)
            IN  /\ store' = StoreDelete(store, id)
                /\ index' = r.index
                /\ deleted' = IF r.ret = "raise" THEN deleted ELSE deleted \cup {id}
                /\ lastOp' = [NoOp EXCEPT !.op = "delete", !.id = id,
                                !.outcome = IF r.ret = "raise"
                                            THEN "StorageOperationError" ELSE "ok",
                                !.details = IF r.ret = "raise" THEN "index" ELSE "none",
                                !.trace = << <<"store.delete", id>>, <<"index.delete", id>> >>,
                                !.idx = [NoIdx EXCEPT !.ret = r.ret]]

\* ------------------------------------------------------------ search

Min(a, b) == IF a < b THEN a ELSE b

\* the ids a query can match: those whose vector is visible
Visible(ix) == {i \in DOMAIN ix : ix[i].st = "visible"}

\* the answers a nearest-neighbour query with top_k = n can give: the ranking
\* is decided by the vectors, so any order of any n visible ids
Ranked(ix, n) ==
    LET V == Visible(ix)
        m == Min(n, Cardinality(V))
    IN  {s \in [1..m -> V] : \A i, j \in 1..m : i # j => s[i] # s[j]}

\* a hydrate loop that gives up at the first id the Primary Store does not
\* hold (what C4 is tested against)
HydrateStopsAtStale(s, ids) ==
    LET stale == {i \in 1..Len(ids) : ~(ids[i] \in DOMAIN s)}
        n == IF stale = {} THEN Len(ids)
             ELSE (CHOOSE i \in stale : \A j \in stale : i <= j) - 1
    IN  [i \in 1..n |-> [id |-> ids[i], title |-> s[ids[i]].title,
                          tags |-> s[ids[i]].tags,
                          evaluations |-> s[ids[i]].evaluations]]

\* the hydrate loop of BaseGenericStorageManager.search / find_similar,
\* BaseStorageManager.search and CompanyStorageManager.search_companies: read
\* every id from the Primary Store, skip the ids it does not hold
RECURSIVE Hydrate(_, _)
Hydrate(s, ids) ==
    IF ids = <<>> THEN <<>>
    ELSE IF StoreHas(s, Head(ids))
         THEN <<StoreRead(s, Head(ids))>> \o Hydrate(s, Tail(ids))
         ELSE Hydrate(s, Tail(ids))

\* BaseGenericStorageManager.search over PineconeSearchIndex.search (raises)
\* or ArticlePineconeIndex.search (returns [] on error);
\* CompanyStorageManager.search_companies over PineconeCompanyIndex.search
Search(limit, storeOk, searchOk, hits) ==
    /\ UNCHANGED <<kind, store, nextId, index, deleted>>
    /\ IF ~searchOk
       THEN IF kind = "generic"
            THEN lastOp' = [NoOp EXCEPT !.op = "search", !.limit = limit,
                              !.outcome = "StorageOperationError", !.details = "index",
                              !.trace = << <<"index.search", 0>> >>,
                              !.idx = [NoIdx EXCEPT !.ret = "raise"]]
            ELSE lastOp' = [NoOp EXCEPT !.op = "search", !.limit = limit,
                              !.outcome = "ok",
                              !.trace = << <<"index.search", 0>> >>,
                              !.idx = [NoIdx EXCEPT !.ret = "empty"]]
       ELSE IF hits # <<>> /\ ~storeOk
       THEN \* storage.read raised on the first id
            lastOp' = [NoOp EXCEPT !.op = "search", !.limit = limit,
                         !.outcome = "StorageOperationError", !.details = "store",
                         !.trace = << <<"index.search", 0>>, <<"store.read", hits[1]>> >>,
                         !.idx = [NoIdx EXCEPT !.ret = "ids"],
                         !.hits = hits]
       ELSE lastOp' = [NoOp EXCEPT !.op = "search", !.limit = limit,
                         !.outcome = "ok",
                         !.trace = << <<"index.search", 0>> >>
                                   \o [i \in 1..Len(hits) |-> <<"store.read", hits[i]>>],
                         !.idx = [NoIdx EXCEPT !.ret = "ids"],
                         !.hits = hits,
                         !.result = Hydrate(store, hits)]

\* ------------------------------------------------------- find similar

Take(s, n) == SubSeq(s, 1, Min(n, Len(s)))

RECURSIVE Without(_, _)
Without(s, x) ==
    IF s = <<>> THEN <<>>
    ELSE IF Head(s) = x THEN Without(Tail(s), x)
         ELSE <<Head(s)>> \o Without(Tail(s), x)

\* a from_dict that builds the Company from the match's metadata (what C10 is
\* tested against)
CompanyFromDictBuilds(data) ==
    [raised |-> FALSE,
     entity |-> [id |-> data.id, title |-> data.meta.title, tags |-> <<>>,
                 evaluations |-> <<>>]]

\* Company.from_dict as search_similar calls it: the Company dataclass of
\* storage/company/types.py defines no from_dict, so the call raises
\* AttributeError
CompanyFromDict(data) ==
    [raised |-> TRUE,
     entity |-> [id |-> 0, title |-> "-", tags |-> <<>>, evaluations |-> <<>>]]

\* the loop of PineconeCompanyIndex.search_similar over the matches: a Company
\* is built from each match's metadata unless it is the queried company
RECURSIVE BuildSimilar(_, _, _)
BuildSimilar(ix, matches, id) ==
    IF matches = <<>> THEN [raised |-> FALSE, list |-> <<>>]
    ELSE IF Head(matches) = id THEN BuildSimilar(ix, Tail(matches), id)
    ELSE LET c == CompanyFromDict([id |-> Head(matches), meta |-> ix[Head(matches)].meta])
             rest == BuildSimilar(ix, Tail(matches), id)
         IN  IF c.raised THEN [raised |-> TRUE, list |-> <<>>]
             ELSE [raised |-> rest.raised,
                   list |-> IF rest.raised THEN <<>> ELSE <<c.entity>> \o rest.list]

\* PineconeCompanyIndex.search_similar: entities, not ids; [] on any error
SearchSimilar(ix, id, limit, matches) ==
    LET b == BuildSimilar(ix, matches, id)
    IN  IF b.raised THEN <<>> ELSE Take(b.list, limit)

\* the top_k of the neighbour query: limit + 1 in the article and company
\* adapters ("the article itself will be included"), limit in the generic one
SimilarTopK(k, limit) == IF k = "generic" THEN limit ELSE limit + 1

\* the matches a find-similar query can give: the generic adapter embeds its
\* argument as a query text; the others fetch the vector of id first and give
\* up when it is not retrievable
SimilarMatches(k, ix, id, limit) ==
    IF k # "generic" /\ ~IndexVisible(ix, id) THEN {<<>>}
    ELSE Ranked(ix, SimilarTopK(k, limit))

\* BaseGenericStorageManager.find_similar over PineconeSearchIndex.find_similar
\* (returns documents built from metadata, which the manager then passes to
\* get() as if they were ids: the read raises; hits holds the ids of the
\* documents) or over
\* ArticlePineconeIndex.find_similar (ids without id itself, [] on error);
\* CompanyStorageManager.find_similar_companies over search_similar
FindSimilar(id, limit, storeOk, queryOk, matches) ==
    /\ UNCHANGED <<kind, store, nextId, index, deleted>>
    /\ LET base == [NoOp EXCEPT !.op = "find_similar", !.id = id, !.limit = limit,
                      !.trace = << <<"index.find_similar", id>> >>]
       IN
       CASE kind = "generic" ->
              IF ~queryOk
              THEN lastOp' = [base EXCEPT !.outcome = "StorageOperationError",
                                !.details = "index", !.idx = [NoIdx EXCEPT !.ret = "raise"]]
              ELSE IF matches # <<>>
              THEN lastOp' = [base EXCEPT !.outcome = "StorageOperationError",
                                !.details = "read of a document, not an id",
                                !.idx = [NoIdx EXCEPT !.ret = "docs"],
                                !.hits = matches]
              ELSE lastOp' = [base EXCEPT !.outcome = "ok",
                                !.idx = [NoIdx EXCEPT !.ret = "docs"]]
         [] kind = "article" ->
              IF ~queryOk
              THEN lastOp' = [base EXCEPT !.outcome = "ok",
                                !.idx = [NoIdx EXCEPT !.ret = "empty"]]
              ELSE LET ids == Take(Without(matches, id), limit) IN
                   IF ids # <<>> /\ ~storeOk
                   THEN lastOp' = [base EXCEPT !.outcome = "StorageOperationError",
                                     !.details = "store",
                                     !.trace = @ \o << <<"store.read", ids[1]>> >>,
                                     !.idx = [NoIdx EXCEPT !.ret = "ids"], !.hits = ids]
                   ELSE lastOp' = [base EXCEPT !.outcome = "ok",
                                     !.trace = @ \o [i \in 1..Len(ids) |-> <<"store.read", ids[i]>>],
                                     !.idx = [NoIdx EXCEPT !.ret = "ids"], !.hits = ids,
                                     !.result = Hydrate(store, ids)]
         [] OTHER ->
              IF ~queryOk
              THEN lastOp' = [base EXCEPT !.outcome = "ok",
                                !.idx = [NoIdx EXCEPT !.ret = "empty"]]
              ELSE lastOp' = [base EXCEPT !.outcome = "ok",
                                !.idx = [NoIdx EXCEPT !.ret = "entities"],
                                !.result = SearchSimilar(index, id, limit, matches)]

\* ------------------------------------------------- eventual consistency

\* the index backend makes an upserted vector visible
Settle(id) ==
    /\ id \in DOMAIN index /\ index[id].st = "pending"
    /\ index' = [index EXCEPT ![id].st = "visible"]
    /\ lastOp' = [NoOp EXCEPT !.op = "settle", !.id = id]
    /\ UNCHANGED <<kind, store, nextId, deleted>>

\* ------------------------------------------- tags and evaluations

\* evaluations a company holds at most
MaxEvals == 2

\* the tag lists a caller passes to add_tags / remove_tags
TagLists == {<<"x">>, <<"y">>, <<"x", "y">>}

SetOf(seq) == {seq[i] : i \in 1..Len(seq)}

\* list(a_set): the members once each, in an order the caller cannot rely on
ListsOf(S) ==
    {l \in [1..Cardinality(S) -> S] : \A i, j \in 1..Cardinality(S) : l[i] = l[j] => i = j}

\* [tag for tag in article.tags if tag not in tags], and $pullAll
TagsWithout(seq, T) == SelectSeq(seq, LAMBDA t : t \notin SetOf(T))

\* $addToSet with $each: every tag of T that the list lacks is appended
RECURSIVE AddToSet(_, _)
AddToSet(seq, T) ==
    IF T = <<>> THEN seq
    ELSE AddToSet(IF Head(T) \in SetOf(seq) THEN seq ELSE Append(seq, Head(T)), Tail(T))

\* get(id), replace the tag list, self.update(id, article); whatever is
\* raised on the way leaves as StorageError
TagWrite(op, id, T, newTags, storeOk, io) ==
    /\ kind = "article"
    /\ UNCHANGED <<kind, nextId, deleted>>
    /\ IF ~storeOk
       THEN \* storage.read raised
            /\ lastOp' = [NoOp EXCEPT !.op = op, !.id = id, !.tags = T,
                            !.outcome = "StorageError", !.details = "store",
                            !.trace = << <<"store.read", id>> >>]
            /\ UNCHANGED <<store, index>>
       ELSE IF ~StoreHas(store, id)
       THEN /\ lastOp' = [NoOp EXCEPT !.op = op, !.id = id, !.tags = T,
                            !.outcome = "StorageError", !.details = "not found",
                            !.trace = << <<"store.read", id>> >>]
            /\ UNCHANGED <<store, index>>
       ELSE LET e == [store[id] EXCEPT !.tags = newTags] IN
            IF ~StoreUpdateModified(store, id, e)
            THEN \* storage.update returned False: update raises
                 \* EntityNotFoundError
                 /\ lastOp' = [NoOp EXCEPT !.op = op, !.id = id, !.tags = T, !.arg = e,
                                 !.outcome = "StorageError", !.details = "not modified",
                                 !.trace = << <<"store.read", id>>, <<"store.update", id>> >>]
                 /\ UNCHANGED <<store, index>>
            ELSE LET r == IndexCall(kind, index, id, MetaOf(kind, e), io)
                 IN  /\ store' = StoreUpdate(store, id, e)
                     /\ index' = r.index
                     /\ lastOp' = [NoOp EXCEPT !.op = op, !.id = id, !.tags = T, !.arg = e,
                                     !.outcome = "ok",
                                     !.trace = << <<"store.read", id>>, <<"store.update", id>>,
                                                  <<"index.index", id>> >>,
                                     !.idx = IdxOf(r)]

\* the tag lists list(set(article.tags) | set(tags)) can be
UnionLists(id, T) ==
    IF StoreHas(store, id) THEN ListsOf(SetOf(store[id].tags) \cup SetOf(T)) ELSE {<<>>}

\* ArticleManager.add_tags
AddTags(id, T, newTags, storeOk, io) ==
    /\ newTags \in UnionLists(id, T)
    /\ TagWrite("add_tags", id, T, newTags, storeOk, io)

\* ArticleManager.remove_tags
RemoveTags(id, T, storeOk, io) ==
    TagWrite("remove_tags", id, T,
             IF StoreHas(store, id) THEN TagsWithout(store[id].tags, T) ELSE <<>>,
             storeOk, io)

\* update_one with a tag operator on the articles collection; the value
\* returned (matched_count is not 0) is kept in details
StorageTagPatch(op, id, T, newTags, storeOk) ==
    /\ kind = "article"
    /\ UNCHANGED <<kind, nextId, deleted, index>>
    /\ IF ~storeOk
       THEN /\ lastOp' = [NoOp EXCEPT !.op = op, !.id = id, !.tags = T,
                            !.outcome = "StorageError", !.details = "store",
                            !.trace = << <<"store.update", id>> >>]
            /\ UNCHANGED store
       ELSE /\ store' = IF StoreHas(store, id)
                        THEN [store EXCEPT ![id].tags = newTags] ELSE store
            /\ lastOp' = [NoOp EXCEPT !.op = op, !.id = id, !.tags = T,
                            !.outcome = "ok",
                            !.details = IF StoreHas(store, id) THEN "True" ELSE "False",
                            !.trace = << <<"store.update", id>> >>]

\* ArticleMongoDBStorage.add_tags (ArticleStorage.add_tags)
StorageAddTags(id, T, storeOk) ==
    StorageTagPatch("storage.add_tags", id, T,
                    IF StoreHas(store, id) THEN AddToSet(store[id].tags, T) ELSE <<>>,
                    storeOk)

\* ArticleMongoDBStorage.remove_tags (ArticleStorage.remove_tags)
StorageRemoveTags(id, T, storeOk) ==
    StorageTagPatch("storage.remove_tags", id, T,
                    IF StoreHas(store, id) THEN TagsWithout(store[id].tags, T) ELSE <<>>,
                    storeOk)

\* CompanyStorageManager.add_evaluation over
\* MongoDBCompanyStorage.add_evaluation ($push; False when nothing was
\* modified or the backend raised), then get and index
AddEvaluation(id, score, storeOk, io) ==
    /\ kind = "company"
    /\ StoreHas(store, id) => Len(store[id].evaluations) < MaxEvals
    /\ UNCHANGED <<kind, nextId, deleted>>
    /\ IF ~storeOk \/ ~StoreHas(store, id)
       THEN /\ lastOp' = [NoOp EXCEPT !.op = "add_evaluation", !.id = id, !.score = score,
                            !.outcome = "StorageOperationError",
                            !.details = IF storeOk THEN "not found" ELSE "store",
                            !.trace = << <<"store.add_evaluation", id>> >>]
            /\ UNCHANGED <<store, index>>
       ELSE LET e == [store[id] EXCEPT
                        !.evaluations = Append(@, [match_score |-> score])]
                r == IndexCall(kind, index, id, MetaOf(kind, e), io)
            IN  /\ store' = StoreUpdate(store, id, e)
                /\ index' = r.index
                /\ lastOp' = [NoOp EXCEPT !.op = "add_evaluation", !.id = id,
                                !.score = score, !.arg = e, !.outcome = "ok",
                                !.trace = << <<"store.add_evaluation", id>>,
                                             <<"store.read", id>>, <<"index.index", id>> >>,
                                !.idx = IdxOf(r)]

\* ---------------------------------------------- connection singleton
\* MongoDB.get_instance / reset_instance run as coroutines of one event
\* loop: a step is what runs between two suspension points.

\* coroutines calling get_instance()
MaxCallers == 3
\* reset_instance() calls
MaxResets == 1

Callers == 1..MaxCallers

\* config["MONGODB_DB_NAME"], as a sequence of characters
ConfigDbName == <<"P", "d", "b">>

\* MongoDB.__init__: the name of the database the handle is bound to
DbName(is_test) ==
    IF is_test THEN ConfigDbName \o <<"-", "t", "e", "s", "t">> ELSE ConfigDbName

\* self.db.name of handle h, constructed with the flag of the caller that
\* created it
DatabaseOf(h) == DbName(isTest[creators[h]])

\* a check that finds no instance whatever is assigned (what C20 is tested
\* against)
NoInstanceAlways(inst) == TRUE

\* "if not cls._instance"
NoInstance(inst) == inst = 0

\* asyncio.Lock.acquire returns at once when the lock is not held and nobody
\* waits for it
LockFree(owner, waiters) == owner = 0 /\ waiters = <<>>

DbInit ==
    /\ pc = [c \in Callers |-> "idle"]
    /\ lockOwner = 0
    /\ lockWaiters = <<>>
    /\ instance = 0
    /\ creators = <<>>
    /\ indexRuns = 0
    /\ got = [c \in Callers |-> 0]
    /\ closed = {}
    /\ resets = 0
    /\ callOrder = <<>>
    /\ isTest = [c \in Callers |-> FALSE]

\* asyncio.Lock.release: the first waiter is woken and nobody can take the
\* lock before it resumes
Release ==
    IF lockWaiters = <<>>
    THEN [owner |-> 0, waiters |-> <<>>, woken |-> 0]
    ELSE [owner |-> Head(lockWaiters), waiters |-> Tail(lockWaiters),
          woken |-> Head(lockWaiters)]

\* the body of "async with cls._lock" up to its first suspension point, run
\* by caller c holding the lock: construct the handle and start index
\* creation when there is no instance, return the instance otherwise
Locked(c) ==
    IF NoInstance(instance)
    THEN /\ creators' = Append(creators, c)
         /\ instance' = Len(creators) + 1
         /\ indexRuns' = indexRuns + 1
         /\ pc' = [pc EXCEPT ![c] = "indexing"]
         /\ lockOwner' = c
         /\ UNCHANGED <<lockWaiters, got>>
    ELSE /\ got' = [got EXCEPT ![c] = instance]
         /\ lockOwner' = Release.owner
         /\ lockWaiters' = Release.waiters
         /\ pc' = [i \in Callers |->
                      IF i = c THEN "done"
                      ELSE IF i = Release.woken THEN "woken"
                      ELSE pc[i]]
         /\ UNCHANGED <<instance, creators, indexRuns>>

\* get_instance(is_test) is called: the lock is taken at once or the caller
\* waits
GetInstance(c, is_test) ==
    /\ pc[c] = "idle"
    /\ callOrder' = Append(callOrder, c)
    /\ isTest' = [isTest EXCEPT ![c] = is_test]
    /\ UNCHANGED <<closed, resets>>
    /\ IF LockFree(lockOwner, lockWaiters)
       THEN Locked(c)
       ELSE /\ lockWaiters' = Append(lockWaiters, c)
            /\ pc' = [pc EXCEPT ![c] = "waiting"]
            /\ UNCHANGED <<lockOwner, instance, creators, indexRuns, got>>

\* a woken waiter resumes inside the lock
Resume(c) ==
    /\ pc[c] = "woken"
    /\ Locked(c)
    /\ UNCHANGED <<closed, resets, callOrder, isTest>>

\* _create_indexes() ends: the caller returns cls._instance as it is now, or
\* RepositoryError leaves get_instance(); either way the lock is released
\* and the instance stays assigned
IndexesCreated(c, ok) ==
    /\ pc[c] = "indexing"
    /\ got' = [got EXCEPT ![c] = IF ok THEN instance ELSE 0]
    /\ lockOwner' = Release.owner
    /\ lockWaiters' = Release.waiters
    /\ pc' = [i \in Callers |->
                 IF i = c THEN (IF ok THEN "done" ELSE "failed")
                 ELSE IF i = Release.woken THEN "woken"
                 ELSE pc[i]]
    /\ UNCHANGED <<instance, creators, indexRuns, closed, resets, callOrder, isTest>>

\* reset_instance(): takes no lock; close() does not suspend
ResetInstance ==
    /\ resets < MaxResets
    /\ resets' = resets + 1
    /\ IF instance # 0
       THEN /\ closed' = closed \cup {instance}
            /\ instance' = 0
       ELSE UNCHANGED <<closed, instance>>
    /\ UNCHANGED <<pc, lockOwner, lockWaiters, creators, indexRuns, got, callOrder, isTest>>

DbNext ==
    \/ \E c \in Callers, is_test \in BOOLEAN : GetInstance(c, is_test) /\ UNCHANGED <<vars, repoVars, crudVars, profVars, pollVars, syncVars, scrapeVars>>
    \/ \E c \in Callers : Resume(c) /\ UNCHANGED <<vars, repoVars, crudVars, profVars, pollVars, syncVars, scrapeVars>>
    \/ \E c \in Callers, ok \in BOOLEAN : IndexesCreated(c, ok) /\ UNCHANGED <<vars, repoVars, crudVars, profVars, pollVars, syncVars, scrapeVars>>
    \/ ResetInstance /\ UNCHANGED <<vars, repoVars, crudVars, profVars, pollVars, syncVars, scrapeVars>>

\* ------------------------------------------- primary store adapters
\* MongoDBStorage[Article] (generic and article wirings) and
\* MongoDBCompanyStorage (company wiring) called directly: create, read,
\* delete, with the conversions between entity and document as coded.

\* a member of an Enum class, and a plain string, which equals no member
Member(cls, v) == [type |-> cls, value |-> v]

Str(v) == [type |-> "str", value |-> v]

\* an Optional[List]: None, or a list
NoList == [none |-> TRUE, items |-> <<>>]

List(l) == [none |-> FALSE, items |-> l]

\* what read returns when no document has the id, and what the other calls
\* leave in result
None == [id |-> "None"]

\* the entities a caller can build: Article(title, tags, url) and
\* Company(name, industry, stage, website, evaluations); "None" is None
Articles ==
    [id : {"None"}, title : {"a", "b"}, tags : {<<>>, <<"x">>}, url : {"None", "u"}]

Companies ==
    [id : {"None"}, name : {"a", "b"},
     industry : {Member("CompanyIndustry", "saas")},
     stage : {Member("CompanyStage", "seed"), Member("CompanyStage", "later")},
     website : {"None", "w"},
     evaluations : {NoList, List(<<>>), List(<< [match_score |-> 5] >>)}]

EntitiesOf(k) == IF k = "company" THEN Companies ELSE Articles

\* Article.to_dict (asdict without the None id) and
\* MongoDBCompanyStorage._to_document (enum values, evaluations or [])
ToDocument(k, e) ==
    IF k = "company"
    THEN [id |-> "None", name |-> e.name, industry |-> Str(e.industry.value),
          stage |-> Str(e.stage.value), website |-> e.website,
          evaluations |-> List(e.evaluations.items)]
    ELSE e

\* Article.from_dict (cls(**data)) and MongoDBCompanyStorage._from_document
\* (the stored strings are passed to Company as they are)
FromDocument(k, id, doc) ==
    IF k = "company"
    THEN [id |-> id, name |-> doc.name, industry |-> doc.industry,
          stage |-> doc.stage, website |-> doc.website,
          evaluations |-> doc.evaluations]
    ELSE [doc EXCEPT !.id = id]

\* made: the entity each id was created from
\* returned: what delete returned
NoCrudOp == [op |-> "init", id |-> 0, outcome |-> "none", result |-> None,
             returned |-> "none", made |-> <<>>]

CrudInit == crudOp = NoCrudOp

\* storage.create(entity)
StorageCreate(e, storeOk) ==
    /\ nextId <= MaxIds
    /\ UNCHANGED <<kind, index, lastOp, deleted>>
    /\ IF ~storeOk
       THEN /\ crudOp' = [crudOp EXCEPT !.op = "create", !.id = 0,
                            !.outcome = "StorageError", !.result = None,
                            !.returned = "none"]
            /\ UNCHANGED <<store, nextId>>
       ELSE /\ store' = StoreCreate(store, nextId, ToDocument(kind, e))
            /\ nextId' = nextId + 1
            /\ crudOp' = [op |-> "create", id |-> nextId, outcome |-> "ok",
                          result |-> None, returned |-> "none",
                          made |-> StoreCreate(crudOp.made, nextId, e)]

\* storage.read(id): the entity, or None when no document has the id
StorageRead(id, storeOk) ==
    /\ UNCHANGED <<kind, store, nextId, index, lastOp, deleted>>
    /\ crudOp' = [crudOp EXCEPT
                    !.op = "read", !.id = id,
                    !.outcome = IF storeOk THEN "ok" ELSE "StorageError",
                    !.result = IF storeOk /\ StoreHas(store, id)
                               THEN FromDocument(kind, id, store[id]) ELSE None,
                    !.returned = "none"]

\* storage.delete(id): deleted_count > 0
StorageDelete(id, storeOk) ==
    /\ UNCHANGED <<kind, nextId, index, lastOp>>
    /\ IF ~storeOk
       THEN /\ crudOp' = [crudOp EXCEPT !.op = "delete", !.id = id,
                            !.outcome = "StorageError", !.result = None,
                            !.returned = "none"]
            /\ UNCHANGED <<store, deleted>>
       ELSE /\ store' = StoreDelete(store, id)
            /\ deleted' = IF StoreHas(store, id) THEN deleted \cup {id} ELSE deleted
            /\ crudOp' = [crudOp EXCEPT !.op = "delete", !.id = id, !.outcome = "ok",
                            !.result = None,
                            !.returned = IF StoreHas(store, id) THEN "True" ELSE "False"]

CrudNext ==
    \/ \E e \in EntitiesOf(kind), storeOk \in BOOLEAN :
          StorageCreate(e, storeOk) /\ UNCHANGED <<repoVars, dbVars, profVars, pollVars, syncVars, scrapeVars>>
    \/ \E id \in Ids, storeOk \in BOOLEAN :
          StorageRead(id, storeOk) /\ UNCHANGED <<repoVars, dbVars, profVars, pollVars, syncVars, scrapeVars>>
    \/ \E id \in Ids, storeOk \in BOOLEAN :
          StorageDelete(id, storeOk) /\ UNCHANGED <<repoVars, dbVars, profVars, pollVars, syncVars, scrapeVars>>

\* ------------------------------------------------------------ scraper
\* ZenrowsScraper.scrape(url, retries), one client request at a time.

\* the largest retries argument tried
MaxScrapeRetries == 4

\* the urls tried: one with scheme and netloc, one without a scheme
Urls == {"https://a", "a"}

\* ZenrowsScraper._validate_url: all([result.scheme, result.netloc])
ValidateUrl(url) == url = "https://a"

\* what one client.get does: a response with a status code, or an exception
\* with a message
Responses ==
    [ok : {TRUE}, status : {200, 404}, error : {"None"}]
    \cup [ok : {FALSE}, status : {0}, error : {"e1", "e2"}]

\* what scrape() has not returned yet, and the None a function returns when
\* it runs off its end
NoResponse == [type |-> "none", html |-> "", status |-> 0, error |-> "None", n |-> 0]

ReturnsNone == [NoResponse EXCEPT !.type = "None"]

NoScrape ==
    [pc |-> "idle", url |-> "", retries |-> 0, attempt |-> 0, log |-> <<>>,
     last_error |-> "None", result |-> NoResponse]

ScrapeIdle == scrape = NoScrape

\* the loop "for attempt in range(retries)" when the value of attempt is a:
\* the body runs again, or the function runs off its end
LoopOrEnd(a, retries) == IF a < retries THEN "loop" ELSE "returned"

\* scrape(url, retries) up to the first client request
ScrapeBegin(url, retries) ==
    /\ scrape.pc = "idle"
    /\ scrape' =
         IF ~ValidateUrl(url)
         THEN [NoScrape EXCEPT !.pc = "raised", !.url = url, !.retries = retries,
                               !.result = [NoResponse EXCEPT !.type = "ValueError"]]
         ELSE [NoScrape EXCEPT !.pc = LoopOrEnd(0, retries), !.url = url,
                               !.retries = retries,
                               !.result = IF LoopOrEnd(0, retries) = "returned"
                                          THEN ReturnsNone ELSE NoResponse]

\* one pass of the loop body: client.get answers r
Request(r) ==
    /\ scrape.pc = "loop"
    /\ scrape' =
         LET a == scrape.attempt
             made == [scrape EXCEPT !.log = Append(@, r)]
         IN  IF r.ok
             THEN [made EXCEPT !.pc = "returned",
                     !.result = [type |-> "ScraperResponse", html |-> "h",
                                 status |-> r.status, error |-> "None", n |-> a + 1]]
             ELSE IF a = scrape.retries - 1
             THEN [made EXCEPT !.pc = "returned", !.last_error = r.error,
                     !.result = [type |-> "ScraperResponse", html |-> "",
                                 status |-> 500, error |-> r.error, n |-> a + 1]]
             ELSE [made EXCEPT !.pc = LoopOrEnd(a + 1, scrape.retries),
                     !.attempt = a + 1, !.last_error = r.error,
                     !.result = IF LoopOrEnd(a + 1, scrape.retries) = "returned"
                                THEN ReturnsNone ELSE NoResponse]

ScrapeNext ==
    \/ \E url \in Urls, retries \in 0..MaxScrapeRetries :
          ScrapeBegin(url, retries) /\ UNCHANGED <<vars, repoVars, dbVars, crudVars, profVars, pollVars, syncVars>>
    \/ \E r \in Responses :
          Request(r) /\ UNCHANGED <<vars, repoVars, dbVars, crudVars, profVars, pollVars, syncVars>>

\* ------------------------------------------- concurrent manager calls
\* BaseGenericStorageManager holds no lock: a create, update or delete is a
\* call to the Primary Store followed by an awaited call to the Search Index,
\* and other coroutines run between the two.

\* coroutines calling the manager at the same time
MaxTasks == 2

Tasks == 1..MaxTasks

IdleTask == [op |-> "none", id |-> 0, pc |-> "idle"]

\* nothing stored, nothing indexed, no call running
SyncInit ==
    /\ tasks = [t \in Tasks |-> IdleTask]
    /\ syncStore = {}
    /\ syncIndex = {}
    /\ syncNextId = 1
    /\ indexFailed = FALSE

\* create: storage.create inserts the entity; index() is awaited next
SyncCreate(t) ==
    /\ tasks[t].pc = "idle"
    /\ syncNextId <= MaxIds
    /\ syncStore' = syncStore \cup {syncNextId}
    /\ syncNextId' = syncNextId + 1
    /\ tasks' = [tasks EXCEPT ![t] = [op |-> "create", id |-> syncNextId, pc |-> "index"]]
    /\ UNCHANGED <<syncIndex, indexFailed>>

\* the ids a caller can pass: all but the ids of creates that have not
\* returned yet
Returned(id) == \A u \in Tasks : ~(tasks[u].op = "create" /\ tasks[u].id = id)

\* update: storage.update; EntityNotFoundError ends the call when the id is
\* not stored, otherwise index() is awaited next
SyncUpdate(t, id) ==
    /\ tasks[t].pc = "idle"
    /\ Returned(id)
    /\ tasks' = [tasks EXCEPT ![t] =
                   IF id \in syncStore
                   THEN [op |-> "update", id |-> id, pc |-> "index"]
                   ELSE IdleTask]
    /\ UNCHANGED <<syncStore, syncIndex, syncNextId, indexFailed>>

\* delete: storage.delete; EntityNotFoundError ends the call when the id is
\* not stored, otherwise delete_from_index() is awaited next
SyncDelete(t, id) ==
    /\ tasks[t].pc = "idle"
    /\ Returned(id)
    /\ tasks' = [tasks EXCEPT ![t] =
                   IF id \in syncStore
                   THEN [op |-> "delete", id |-> id, pc |-> "unindex"]
                   ELSE IdleTask]
    /\ syncStore' = syncStore \ {id}
    /\ UNCHANGED <<syncIndex, syncNextId, indexFailed>>

\* the index() a create or update was waiting for: the vector is upserted
\* and confirmed, or the call fails
SyncIndexed(t, ok) ==
    /\ tasks[t].pc = "index"
    /\ syncIndex' = IF ok THEN syncIndex \cup {tasks[t].id} ELSE syncIndex
    /\ indexFailed' = (indexFailed \/ ~ok)
    /\ tasks' = [tasks EXCEPT ![t] = IdleTask]
    /\ UNCHANGED <<syncStore, syncNextId>>

\* the delete_from_index() a delete was waiting for
SyncUnindexed(t, ok) ==
    /\ tasks[t].pc = "unindex"
    /\ syncIndex' = IF ok THEN syncIndex \ {tasks[t].id} ELSE syncIndex
    /\ indexFailed' = (indexFailed \/ ~ok)
    /\ tasks' = [tasks EXCEPT ![t] = IdleTask]
    /\ UNCHANGED <<syncStore, syncNextId>>

SyncNext ==
    \/ \E t \in Tasks : SyncCreate(t)
          /\ UNCHANGED <<vars, repoVars, dbVars, crudVars, profVars, pollVars, scrapeVars>>
    \/ \E t \in Tasks, id \in Ids : SyncUpdate(t, id)
          /\ UNCHANGED <<vars, repoVars, dbVars, crudVars, profVars, pollVars, scrapeVars>>
    \/ \E t \in Tasks, id \in Ids : SyncDelete(t, id)
          /\ UNCHANGED <<vars, repoVars, dbVars, crudVars, profVars, pollVars, scrapeVars>>
    \/ \E t \in Tasks, ok \in BOOLEAN : SyncIndexed(t, ok)
          /\ UNCHANGED <<vars, repoVars, dbVars, crudVars, profVars, pollVars, scrapeVars>>
    \/ \E t \in Tasks, ok \in BOOLEAN : SyncUnindexed(t, ok)
          /\ UNCHANGED <<vars, repoVars, dbVars, crudVars, profVars, pollVars, scrapeVars>>

\* --------------------------------------------- index(), step by step
\* The index() coroutine of the three Pinecone adapters followed from one
\* backend call to the next: the embedding and the upsert, then the
\* verification loop, one fetch per attempt.

\* what one verification attempt can observe: the fetch returns the id, the
\* fetch does not, a backend call raises; in the company adapter the top-1
\* query can return the id the fetch did not
Observations(k) ==
    {"seen", "unseen", "error"} \cup (IF k = "company" THEN {"query"} ELSE {})

\* how index() reports a failure and a confirmed vector
Failed(k) == IF k = "generic" THEN "raise" ELSE "False"
Confirmed(k) == IF k = "generic" THEN "None" ELSE "True"

\* a loop that repeats the attempt it is at
SameAttempt(a) == a

\* for attempt in range(max_retries)
NextAttempt(a) == a + 1

\* no index() call has been made
NoPoll == [pc |-> "idle", kind |-> "generic", attempt |-> 0, obs |-> <<>>,
           ret |-> "none"]

PollIdle == poll = NoPoll

\* index() is called: the text is embedded and the vector upserted, and an
\* exception of either ends the call
IndexBegin(k, embedOk, upsertOk) ==
    /\ poll.pc \in {"idle", "done"}
    /\ poll' = IF embedOk /\ upsertOk
               THEN [NoPoll EXCEPT !.pc = "verify", !.kind = k, !.attempt = 1]
               ELSE [NoPoll EXCEPT !.pc = "done", !.kind = k, !.ret = Failed(k)]

\* one pass of the verification loop
Fetch(o) ==
    /\ poll.pc = "verify"
    /\ LET k == poll.kind
           p == [poll EXCEPT !.obs = Append(@, o)]
       IN  poll' =
             CASE o \in {"seen", "query"} ->
                    [p EXCEPT !.pc = "done", !.ret = Confirmed(k)]
               [] o = "error" /\ k = "generic" ->
                    \* no inner try: the outer handler raises StorageError
                    [p EXCEPT !.pc = "done", !.ret = Failed(k)]
               [] o \in {"unseen", "error"} /\ poll.attempt >= MaxRetries(k) ->
                    \* the loop is left, or the error of the last attempt
                    \* re-raised: False, StorageError from the generic adapter
                    [p EXCEPT !.pc = "done", !.ret = Failed(k)]
               [] OTHER -> [p EXCEPT !.attempt = NextAttempt(poll.attempt)]

\* the steps of the verification loop
FetchStep ==
    \E o \in Observations(poll.kind) :
       Fetch(o) /\ UNCHANGED <<vars, repoVars, dbVars, crudVars, profVars, syncVars, scrapeVars>>

PollNext ==
    \/ \E k \in Kinds, embedOk \in BOOLEAN, upsertOk \in BOOLEAN :
          IndexBegin(k, embedOk, upsertOk)
          /\ UNCHANGED <<vars, repoVars, dbVars, crudVars, profVars, syncVars, scrapeVars>>
    \/ FetchStep

\* ------------------------------------------------------------- profile
\* ProfileManager (src/profile/manager.py) searches the capabilities of a
\* read-only data source and matches job requirements against them, on a
\* vector store when the embeddings answer and on text similarity otherwise.
\* A string is a sequence of characters; a score is a fraction <<n, d>> with
\* d > 0 (the rounding of Python's floats is not modelled).

\* capabilities the data source holds
MaxCaps == 2
\* requirements passed to one match_requirements call
MaxReqs == 2

\* str.lower
Lower(s) == [i \in 1..Len(s) |-> IF s[i] = "P" THEN "p" ELSE s[i]]

\* str.strip
RECURSIVE Strip(_)
Strip(s) ==
    IF s = <<>> THEN s
    ELSE IF Head(s) = " " THEN Strip(Tail(s))
    ELSE IF s[Len(s)] = " " THEN Strip(SubSeq(s, 1, Len(s) - 1))
    ELSE s

\* a query that is empty without being stripped first
BlankUnstripped(q) == q = <<>>

\* not query.strip()
Blank(q) == Strip(q) = <<>>

\* a in b, for strings
Contains(b, a) ==
    \E i \in 1..(Len(b) - Len(a) + 1) : SubSeq(b, i, i + Len(a) - 1) = a

\* SequenceMatcher.find_longest_match: the longest block a[i..i+k-1] =
\* b[j..j+k-1], the one that starts earliest in a and then earliest in b
LongestMatch(a, b) ==
    LET C == {m \in [i : 1..Len(a), j : 1..Len(b), k : 1..Min(Len(a), Len(b))] :
                /\ m.i + m.k - 1 <= Len(a)
                /\ m.j + m.k - 1 <= Len(b)
                /\ SubSeq(a, m.i, m.i + m.k - 1) = SubSeq(b, m.j, m.j + m.k - 1)}
    IN  IF C = {} THEN [i |-> 1, j |-> 1, k |-> 0]
        ELSE CHOOSE m \in C :
               \A n \in C : \/ n.k < m.k
                            \/ n.k = m.k /\ m.i < n.i
                            \/ n.k = m.k /\ m.i = n.i /\ m.j <= n.j

\* SequenceMatcher.get_matching_blocks: the characters in the longest match
\* and in the matches to its left and to its right
RECURSIVE Matched(_, _)
Matched(a, b) ==
    LET m == LongestMatch(a, b)
    IN  IF m.k = 0 THEN 0
        ELSE m.k + Matched(SubSeq(a, 1, m.i - 1), SubSeq(b, 1, m.j - 1))
                 + Matched(SubSeq(a, m.i + m.k, Len(a)), SubSeq(b, m.j + m.k, Len(b)))

\* SequenceMatcher.ratio: 2 * matches / total length, 1.0 for two empty strings
Ratio(a, b) ==
    IF Len(a) + Len(b) = 0 THEN <<1, 1>> ELSE <<2 * Matched(a, b), Len(a) + Len(b)>>

\* a >= b, a > b for fractions
Geq(a, b) == a[1] * b[2] >= b[1] * a[2]
Gt(a, b) == a[1] * b[2] > b[1] * a[2]

\* x * w for fractions
Times(x, w) == <<x[1] * w[1], x[2] * w[2]>>

\* _calculate_relevance_score without the cap at 1.0
CalculateRelevanceScoreUncapped(query, name, experience, examples) ==
    LET ns == Ratio(query, Lower(name))
        content == Lower(experience) \o <<" ">> \o Lower(examples)
        cs == Ratio(query, content)
        bonus == IF Contains(content, query) THEN 3 ELSE 0
    IN  << 6 * ns[1] * cs[2] + 4 * cs[1] * ns[2] + bonus * ns[2] * cs[2],
           10 * ns[2] * cs[2] >>

\* ProfileManager._calculate_relevance_score:
\* min(1.0, 0.6 * name similarity + 0.4 * content similarity + 0.3 bonus)
CalculateRelevanceScore(query, name, experience, examples) ==
    LET ns == Ratio(query, Lower(name))
        content == Lower(experience) \o <<" ">> \o Lower(examples)
        cs == Ratio(query, content)
        bonus == IF Contains(content, query) THEN 3 ELSE 0
        s == << 6 * ns[1] * cs[2] + 4 * cs[1] * ns[2] + bonus * ns[2] * cs[2],
                10 * ns[2] * cs[2] >>
    IN  IF Gt(s, <<1, 1>>) THEN <<1, 1>> ELSE s

\* the capabilities the data source can hold
Capabilities ==
    { [name |-> <<"P", "y">>, level |-> "Expert",
       experience |-> <<"p", "y">>, examples |-> <<>>],
      [name |-> <<"p">>, level |-> "Advanced",
       experience |-> <<"y">>, examples |-> <<>>] }

\* the lists of capabilities the data source can answer with
CapabilityLists == UNION {[1..n -> Capabilities] : n \in 0..MaxCaps}

\* the queries of search_capabilities
Queries == {<<>>, <<" ">>, <<"P">>, <<"y">>, <<"p", "y">>}

\* the thresholds of search_capabilities (0.2 is the default)
Thresholds == {<<2, 10>>, <<7, 10>>}

\* the requirement texts, and the lists of them a caller passes
ReqTexts == {<<"P", "y">>, <<"p", "p">>}
ReqLists == UNION {[1..n -> ReqTexts] : n \in 0..MaxReqs}

\* the scores the vector store can report for a document
SemScores == {<<5, 10>>, <<9, 10>>}

\* how the embeddings behave in a call: they answer, they fail while the
\* vector store is built, or they fail on the query
EmbedModes == {"ok", "build", "query"}

\* ProfileManager.level_weights
LevelWeights(level) ==
    CASE level = "Expert" -> <<10, 10>>
      [] level = "Advanced" -> <<8, 10>>
      [] level = "Intermediate" -> <<6, 10>>
      [] OTHER -> <<4, 10>>

\* cap.copy() with cap['match_score'] = score
WithScore(cap, score) ==
    [name |-> cap.name, level |-> cap.level, experience |-> cap.experience,
     examples |-> cap.examples, match_score |-> score]

\* sorted(matches, key=match_score, reverse=True): stable, so equal scores
\* keep the order they were found in
RECURSIVE SortByScore(_)
SortByScore(s) ==
    IF s = <<>> THEN <<>>
    ELSE LET rest == SortByScore(SubSeq(s, 1, Len(s) - 1))
             x == s[Len(s)]
             n == Cardinality({i \in 1..Len(rest) :
                                 Geq(rest[i].match_score, x.match_score)})
         IN  SubSeq(rest, 1, n) \o <<x>> \o SubSeq(rest, n + 1, Len(rest))

\* the matches at or above the threshold, best first
AtLeast(scored, threshold) ==
    SortByScore(SelectSeq(scored, LAMBDA x : Geq(x.match_score, threshold)))

\* the loop of _traditional_search over the capabilities it was given
TraditionalMatches(caps, query, threshold) ==
    AtLeast([i \in 1..Len(caps) |->
               WithScore(caps[i],
                         CalculateRelevanceScore(Lower(query), caps[i].name,
                                                 caps[i].experience, caps[i].examples))],
            threshold)

\* the loop of search_capabilities over what the vector store returned
SemanticMatches(caps, sim, threshold) ==
    AtLeast([i \in 1..Len(caps) |-> WithScore(caps[i], sim[i])], threshold)

\* ProfileManager._initialize_vector_store: nothing to do when the store
\* exists; otherwise the capabilities are fetched and embedded
InitializeVectorStore(vs, sourceOk, embed) ==
    IF vs # "None" THEN [store |-> vs, raised |-> FALSE, calls |-> <<>>]
    ELSE IF ~sourceOk THEN [store |-> vs, raised |-> TRUE, calls |-> <<"source">>]
    ELSE IF embed = "build"
         THEN [store |-> vs, raised |-> TRUE, calls |-> <<"source", "embed">>]
         ELSE [store |-> "built", raised |-> FALSE, calls |-> <<"source", "embed">>]

\* whether a call gets its answer from the vector store: the store exists or
\* can be built, and the query is embedded
Semantic(vs, sourceOk, embed) ==
    ~InitializeVectorStore(vs, sourceOk, embed).raised /\ embed # "query"

\* the last ProfileManager call: its arguments, the collaborators it called
\* in order, the path that produced the answer and the answer
NoProfOp ==
    [op |-> "init", query |-> <<>>, threshold |-> <<0, 1>>, reqs |-> <<>>,
     calls |-> <<>>, path |-> "none", outcome |-> "none", result |-> <<>>,
     matched_skills |-> <<>>, partial_matches |-> <<>>, missing_skills |-> <<>>,
     match_score |-> <<0, 1>>, best |-> <<>>]

\* the profile manager is not used
ProfIdle ==
    /\ capabilities = <<>>
    /\ vectorStore = "None"
    /\ profOp = NoProfOp

\* a query that is blank after strip, tested before anything is called
SearchBlank(query, threshold) ==
    /\ profOp' = [NoProfOp EXCEPT !.op = "search_capabilities", !.query = query,
                    !.threshold = threshold, !.outcome = "ok"]
    /\ UNCHANGED <<capabilities, vectorStore>>

\* ProfileManager.search_capabilities
SearchCapabilities(query, threshold, sourceOk, embed, sim) ==
    IF Blank(query) THEN SearchBlank(query, threshold)
    ELSE LET vs == InitializeVectorStore(vectorStore, sourceOk, embed)
             op == [NoProfOp EXCEPT !.op = "search_capabilities", !.query = query,
                                    !.threshold = threshold]
         IN  /\ vectorStore' = vs.store
             /\ UNCHANGED capabilities
             /\ IF Semantic(vectorStore, sourceOk, embed)
                THEN profOp' = [op EXCEPT
                                  !.calls = vs.calls \o <<"embed", "vector">>,
                                  !.path = "semantic", !.outcome = "ok",
                                  !.result = SemanticMatches(capabilities, sim, threshold)]
                ELSE \* except Exception: return await self._traditional_search(...)
                     LET calls == vs.calls
                                  \o (IF vs.raised THEN <<>> ELSE <<"embed">>)
                                  \o <<"lexical", "source">>
                     IN  IF sourceOk
                         THEN profOp' = [op EXCEPT
                                           !.calls = calls, !.path = "traditional",
                                           !.outcome = "ok",
                                           !.result = TraditionalMatches(capabilities,
                                                                         query, threshold)]
                         ELSE profOp' = [op EXCEPT
                                           !.calls = calls, !.path = "traditional",
                                           !.outcome = "raise"]

\* the best match found so far by the loops of the matching operations
NoBest == [found |-> FALSE, score |-> <<0, 1>>,
           match |-> [name |-> <<>>, level |-> "-", experience |-> <<>>,
                      examples |-> <<>>, match_score |-> <<0, 1>>]]

\* best_score starts at 0 and a candidate replaces the best only when its
\* weighted score is strictly greater
RECURSIVE BestMatch(_, _)
BestMatch(scored, best) ==
    IF scored = <<>> THEN best
    ELSE BestMatch(Tail(scored),
                   IF Gt(Head(scored).match_score, best.score)
                   THEN [found |-> TRUE, score |-> Head(scored).match_score,
                         match |-> Head(scored)]
                   ELSE best)

\* the best of the vector store's results for one requirement, each score
\* multiplied by the weight of the capability's level
SemanticBest(caps, sim) ==
    BestMatch([i \in 1..Len(caps) |->
                 WithScore(caps[i], Times(sim[i], LevelWeights(caps[i].level)))],
              NoBest)

\* the best relevance score of one requirement over the capabilities, each
\* multiplied by the weight of the capability's level
TraditionalBest(caps, req) ==
    BestMatch([i \in 1..Len(caps) |->
                 WithScore(caps[i],
                           Times(CalculateRelevanceScore(Lower(req), caps[i].name,
                                                         caps[i].experience,
                                                         caps[i].examples),
                                 LevelWeights(caps[i].level)))],
              NoBest)

\* a classification with no partial class
ClassOfTwo(found, score) ==
    IF found /\ Geq(score, <<8, 10>>) THEN "matched" ELSE "missing"

\* if best_score >= 0.8 ... elif best_score >= 0.4 ...; a requirement with
\* no best match stays missing
ClassOf(found, score) ==
    IF found /\ Geq(score, <<8, 10>>) THEN "matched"
    ELSE IF found /\ Geq(score, <<4, 10>>) THEN "partial"
    ELSE "missing"

\* list.remove: the list without the first occurrence of x
RECURSIVE RemoveFirst(_, _)
RemoveFirst(s, x) ==
    IF s = <<>> THEN s
    ELSE IF Head(s) = x THEN Tail(s)
    ELSE <<Head(s)>> \o RemoveFirst(Tail(s), x)

\* the score that counts a partial match as a full one
MatchScoreFull(m, p, n) == IF n > 0 THEN <<2 * m + 2 * p, 2 * n>> ELSE <<0, 1>>

\* (matched + 0.5 * partial) / total if total > 0 else 0.0
MatchScore(m, p, n) == IF n > 0 THEN <<2 * m + p, 2 * n>> ELSE <<0, 1>>

\* the matches dictionary before any requirement has been looked at
NoMatches(reqs) ==
    [matched_skills |-> <<>>, partial_matches |-> <<>>, missing_skills |-> reqs,
     best |-> <<>>]

\* the loop over the requirements: bestOf gives the best match of each
\* requirement text
RECURSIVE Classify(_, _, _)
Classify(reqs, bestOf, acc) ==
    IF reqs = <<>> THEN acc
    ELSE LET req == Head(reqs)
             b == bestOf[req]
             c == ClassOf(b.found, b.score)
             seen == [acc EXCEPT !.best = Append(@, b.score)]
         IN  Classify(Tail(reqs), bestOf,
                 IF c = "matched"
                 THEN [seen EXCEPT !.matched_skills = Append(@, b.match),
                                   !.missing_skills = RemoveFirst(@, req)]
                 ELSE IF c = "partial"
                 THEN [seen EXCEPT !.partial_matches = Append(@, b.match),
                                   !.missing_skills = RemoveFirst(@, req)]
                 ELSE seen)

\* the answer of a matching operation that went through its loop
Answer(op, path, calls, reqs, bestOf) ==
    LET m == Classify(reqs, bestOf, NoMatches(reqs))
    IN  [op EXCEPT !.calls = calls, !.path = path, !.outcome = "ok",
                   !.matched_skills = m.matched_skills,
                   !.partial_matches = m.partial_matches,
                   !.missing_skills = m.missing_skills,
                   !.best = m.best,
                   !.match_score = MatchScore(Len(m.matched_skills),
                                              Len(m.partial_matches), Len(reqs))]

\* ProfileManager._traditional_match_requirements
TraditionalMatchRequirements(op, calls, reqs) ==
    Answer(op, "traditional", calls \o <<"source">>, reqs,
           [r \in {reqs[i] : i \in 1..Len(reqs)} |-> TraditionalBest(capabilities, r)])

\* ProfileManager.match_requirements; sim gives, for each requirement text,
\* the scores the vector store reports for the capabilities
MatchRequirements(reqs, sourceOk, embed, sim) ==
    LET op == [NoProfOp EXCEPT !.op = "match_requirements", !.reqs = reqs]
    IN  /\ UNCHANGED capabilities
        /\ IF ~sourceOk
           THEN \* get_capabilities raises before the try
                /\ profOp' = [op EXCEPT !.calls = <<"source">>, !.outcome = "raise"]
                /\ UNCHANGED vectorStore
           ELSE IF reqs = <<>>
           THEN /\ profOp' = [op EXCEPT !.calls = <<"source">>, !.outcome = "ok"]
                /\ UNCHANGED vectorStore
           ELSE LET vs == InitializeVectorStore(vectorStore, sourceOk, embed)
                IN  /\ vectorStore' = vs.store
                    /\ IF Semantic(vectorStore, sourceOk, embed)
                       THEN profOp' =
                              Answer(op, "semantic",
                                     <<"source">> \o vs.calls \o <<"embed", "vector">>,
                                     reqs,
                                     [r \in DOMAIN sim |->
                                        SemanticBest(capabilities, sim[r])])
                       ELSE profOp' =
                              TraditionalMatchRequirements(
                                  op,
                                  <<"source">> \o vs.calls
                                  \o (IF vs.raised THEN <<>> ELSE <<"embed">>),
                                  reqs)

\* the scores the vector store can report for the capabilities
SimsOf(caps) == [1..Len(caps) -> SemScores]

\* the scores that matter to a call: those of the vector store when it
\* answers, one choice when it is not asked
SimsFor(S, semantic) == IF semantic THEN S ELSE {CHOOSE f \in S : TRUE}

ProfileNext ==
    \/ \E query \in Queries, threshold \in Thresholds, sourceOk \in BOOLEAN,
          embed \in EmbedModes :
          \E sim \in SimsFor(SimsOf(capabilities),
                              Semantic(vectorStore, sourceOk, embed)) :
          SearchCapabilities(query, threshold, sourceOk, embed, sim)
          /\ UNCHANGED <<vars, repoVars, dbVars, crudVars, pollVars, syncVars, scrapeVars>>
    \/ \E reqs \in ReqLists, sourceOk \in BOOLEAN, embed \in EmbedModes :
          \E sim \in SimsFor([{reqs[i] : i \in 1..Len(reqs)} -> SimsOf(capabilities)],
                              sourceOk /\ Semantic(vectorStore, sourceOk, embed)) :
             MatchRequirements(reqs, sourceOk, embed, sim)
             /\ UNCHANGED <<vars, repoVars, dbVars, crudVars, pollVars, syncVars, scrapeVars>>

\* ---------------------------------------------------------- repositories
\* CompanyRepository and JobRepository (src/repositories) write documents
\* straight to MongoDB collections; there is no search index behind them.

\* ids of repository documents ever created
MaxRepoIds == 1
\* largest reading of the clock
MaxClock == 1
\* stages told apart, by ordinal (CompanyStage lists IDEA .. LATER in order)
MaxStage == 2

\* the ids a caller can pass: 0 stands for a string that is no ObjectId
\* ("invalid-id"), the others are well-formed; the largest is never issued
\* by an insert ("507f1f77bcf86cd799439011")
RepoIds == 0..(MaxRepoIds + 1)

Stages == 1..MaxStage

\* match_score values in tenths: JobAd.match_score must lie in 0..10
Scores == {-5, 10, 15}

ScoreInRange(x) == 0 <= x /\ x <= 10

\* ObjectId(id) raises InvalidId for a malformed string
WellFormed(id) == id # 0

\* stage: the stage of the Company passed to update (0: none); score: the
\* match_score passed; storeOk: whether the backend answered the call;
\* owner, include: the arguments of get_company_jobs; found: the ids of the
\* jobs it returned
NoRepoOp == [op |-> "init", id |-> 0, stage |-> 0, score |-> 0, storeOk |-> TRUE,
             owner |-> "-", include |-> FALSE, found |-> {}, outcome |-> "none"]

\* the company_id values of job ads
Owners == {"c1", "c2"}

\* archived_at of a job that has not been archived (None)
NotArchived == -1

RepoInit ==
    /\ clock = 0
    /\ companies = <<>>
    /\ jobs = <<>>
    /\ nextRepoId = 1
    /\ repoOp = NoRepoOp

\* the repositories are constructed on the handle of
\* MongoDB.get_instance(is_test)
Bound(is_test) == dbName = DbName(is_test)

\* time passes between two calls of datetime.now()
Tick ==
    /\ clock < MaxClock
    /\ clock' = clock + 1
    /\ repoOp' = [NoRepoOp EXCEPT !.op = "tick"]
    /\ UNCHANGED <<companies, jobs, nextRepoId>>

\* a Company object as a caller builds it: BaseDocument fills created_at and
\* updated_at with datetime.now() unless the caller passes them
NewCompany(stage) == [stage |-> stage, created_at |-> clock, updated_at |-> clock]

\* CompanyRepository.create
CompanyCreate(c) ==
    /\ nextRepoId <= MaxRepoIds
    /\ companies' = [i \in (DOMAIN companies) \cup {nextRepoId} |->
                        IF i = nextRepoId THEN c ELSE companies[i]]
    /\ nextRepoId' = nextRepoId + 1
    /\ repoOp' = [NoRepoOp EXCEPT !.op = "company.create", !.id = nextRepoId,
                    !.outcome = "id"]
    /\ UNCHANGED <<clock, jobs>>

\* an update_one that inserts the document when no document has the id
SetFieldsUpsert(coll, id, doc) ==
    IF id \in DOMAIN coll /\ coll[id] = doc
    THEN [coll |-> coll, modified |-> FALSE]
    ELSE [coll |-> [i \in (DOMAIN coll) \cup {id} |-> IF i = id THEN doc ELSE coll[i]],
          modified |-> TRUE]

\* update_one({"_id": id}, {"$set": doc}) on a collection: the collection
\* afterwards and modified_count > 0
SetFields(coll, id, doc) ==
    IF id \in DOMAIN coll /\ coll[id] # doc
    THEN [coll |-> [coll EXCEPT ![id] = doc], modified |-> TRUE]
    ELSE [coll |-> coll, modified |-> FALSE]

\* CompanyRepository.update: the whole document of the Company passed in is
\* written, with updated_at replaced by datetime.now(); no stored value is read
CompanyUpdate(id, c, storeOk) ==
    /\ UNCHANGED <<clock, jobs, nextRepoId>>
    /\ IF ~WellFormed(id) \/ ~storeOk
       THEN /\ repoOp' = [NoRepoOp EXCEPT !.op = "company.update", !.id = id,
                            !.stage = c.stage, !.storeOk = storeOk,
                            !.outcome = "StorageError"]
            /\ UNCHANGED companies
       ELSE LET r == SetFields(companies, id, [c EXCEPT !.updated_at = clock])
            IN  /\ companies' = r.coll
                /\ repoOp' = [NoRepoOp EXCEPT !.op = "company.update", !.id = id,
                                !.stage = c.stage, !.storeOk = storeOk,
                                !.outcome = IF r.modified THEN "True" ELSE "False"]

\* CompanyRepository.delete
CompanyDelete(id, storeOk) ==
    /\ UNCHANGED <<clock, jobs, nextRepoId>>
    /\ IF ~WellFormed(id) \/ ~storeOk
       THEN /\ repoOp' = [NoRepoOp EXCEPT !.op = "company.delete", !.id = id,
                            !.storeOk = storeOk,
                            !.outcome = "StorageError"]
            /\ UNCHANGED companies
       ELSE /\ companies' = [i \in (DOMAIN companies) \ {id} |-> companies[i]]
            /\ repoOp' = [NoRepoOp EXCEPT !.op = "company.delete", !.id = id,
                            !.storeOk = storeOk,
                            !.outcome = IF id \in DOMAIN companies
                                        THEN "True" ELSE "False"]

\* JobRepository.create of a JobAd that has not been evaluated.  The document
\* has one evaluation slot (match_score, skills_match, evaluation_notes,
\* evaluated_at); evaluations lists the evaluation records the document holds.
JobCreate(owner) ==
    /\ nextRepoId <= MaxRepoIds
    /\ jobs' = [i \in (DOMAIN jobs) \cup {nextRepoId} |->
                   IF i = nextRepoId
                   THEN [company_id |-> owner, active |-> TRUE,
                         archived_at |-> NotArchived, evaluations |-> <<>>]
                   ELSE jobs[i]]
    /\ nextRepoId' = nextRepoId + 1
    /\ repoOp' = [NoRepoOp EXCEPT !.op = "job.create", !.id = nextRepoId,
                    !.outcome = "id"]
    /\ UNCHANGED <<clock, companies>>

\* JobRepository.update_evaluation: the score is checked first, then the
\* evaluation fields are set to the new values
JobUpdateEvaluation(id, score, storeOk) ==
    /\ UNCHANGED <<clock, companies, nextRepoId>>
    /\ IF ~ScoreInRange(score)
       THEN /\ repoOp' = [NoRepoOp EXCEPT !.op = "job.update_evaluation", !.id = id,
                            !.score = score, !.storeOk = storeOk,
                            !.outcome = "ValueError"]
            /\ UNCHANGED jobs
       ELSE IF ~WellFormed(id) \/ ~storeOk
       THEN /\ repoOp' = [NoRepoOp EXCEPT !.op = "job.update_evaluation", !.id = id,
                            !.score = score, !.storeOk = storeOk,
                            !.outcome = "StorageError"]
            /\ UNCHANGED jobs
       ELSE LET r == SetFields(jobs, id,
                       [jobs[id] EXCEPT
                          !.evaluations = << [match_score |-> score,
                                              evaluated_at |-> clock] >>])
            IN  /\ jobs' = r.coll
                /\ repoOp' = [NoRepoOp EXCEPT !.op = "job.update_evaluation", !.id = id,
                                !.score = score, !.storeOk = storeOk,
                                !.outcome = IF r.modified THEN "True" ELSE "False"]

\* a find that takes every job of the company (what C22 is tested against)
JobsOfAll(coll, owner, include) == {i \in DOMAIN coll : coll[i].company_id = owner}

\* find({"company_id": owner}), with "active": True unless archived jobs are
\* asked for
JobsOf(coll, owner, include) ==
    {i \in DOMAIN coll : coll[i].company_id = owner /\ (include \/ coll[i].active)}

\* JobRepository.archive_job
ArchiveJob(id, storeOk) ==
    /\ UNCHANGED <<clock, companies, nextRepoId>>
    /\ IF ~WellFormed(id) \/ ~storeOk
       THEN /\ repoOp' = [NoRepoOp EXCEPT !.op = "job.archive", !.id = id,
                            !.storeOk = storeOk, !.outcome = "StorageError"]
            /\ UNCHANGED jobs
       ELSE LET r == SetFields(jobs, id,
                       [jobs[id] EXCEPT !.active = FALSE, !.archived_at = clock])
            IN  /\ jobs' = r.coll
                /\ repoOp' = [NoRepoOp EXCEPT !.op = "job.archive", !.id = id,
                                !.storeOk = storeOk,
                                !.outcome = IF r.modified THEN "True" ELSE "False"]

\* JobRepository.get_company_jobs
GetCompanyJobs(owner, include, storeOk) ==
    /\ UNCHANGED <<clock, companies, jobs, nextRepoId>>
    /\ repoOp' = [NoRepoOp EXCEPT !.op = "job.get_company_jobs", !.owner = owner,
                    !.include = include, !.storeOk = storeOk,
                    !.found = IF storeOk THEN JobsOf(jobs, owner, include) ELSE {},
                    !.outcome = IF storeOk THEN "ok" ELSE "StorageError"]

\* the Company objects a caller can pass to update: one it has just built
\* (NewCompany) or one it read from the repository and changed the stage of
UpdateArgs(id) ==
    {NewCompany(st) : st \in Stages}
    \cup (IF id \in DOMAIN companies
          THEN {[companies[id] EXCEPT !.stage = st] : st \in Stages} ELSE {})

\* str.endswith
EndsWith(s, suffix) ==
    /\ Len(s) >= Len(suffix)
    /\ SubSeq(s, Len(s) - Len(suffix) + 1, Len(s)) = suffix

\* CompanyRepository.cleanup_test_data: aborts unless db.name ends with
\* "_test"; delete_many({}) otherwise, a failure of it logged and swallowed
CompanyCleanupTestData(storeOk) ==
    /\ repoOp' = [NoRepoOp EXCEPT !.op = "company.cleanup_test_data",
                    !.storeOk = storeOk, !.outcome = "None"]
    /\ companies' = IF EndsWith(dbName, <<"_", "t", "e", "s", "t">>) /\ storeOk
                    THEN <<>> ELSE companies
    /\ UNCHANGED <<clock, jobs, nextRepoId>>

\* JobRepository.cleanup_test_data: aborts unless "test" is in
\* db.name.lower(); delete_many({}) otherwise, a failure of it logged and
\* swallowed
JobCleanupTestData(storeOk) ==
    /\ repoOp' = [NoRepoOp EXCEPT !.op = "job.cleanup_test_data",
                    !.storeOk = storeOk, !.outcome = "None"]
    /\ jobs' = IF Contains(Lower(dbName), <<"t", "e", "s", "t">>) /\ storeOk
               THEN <<>> ELSE jobs
    /\ UNCHANGED <<clock, companies, nextRepoId>>

RepoNext ==
    \/ Tick /\ UNCHANGED <<dbName, vars, dbVars, crudVars, profVars, pollVars, syncVars, scrapeVars>>
    \/ \E st \in Stages : CompanyCreate(NewCompany(st)) /\ UNCHANGED <<dbName, vars, dbVars, crudVars, profVars, pollVars, syncVars, scrapeVars>>
    \/ \E id \in RepoIds, storeOk \in BOOLEAN : \E c \in UpdateArgs(id) :
          CompanyUpdate(id, c, storeOk) /\ UNCHANGED <<dbName, vars, dbVars, crudVars, profVars, pollVars, syncVars, scrapeVars>>
    \/ \E id \in RepoIds, storeOk \in BOOLEAN :
          CompanyDelete(id, storeOk) /\ UNCHANGED <<dbName, vars, dbVars, crudVars, profVars, pollVars, syncVars, scrapeVars>>
    \/ \E owner \in Owners : JobCreate(owner) /\ UNCHANGED <<dbName, vars, dbVars, crudVars, profVars, pollVars, syncVars, scrapeVars>>
    \/ \E id \in RepoIds, storeOk \in BOOLEAN :
          ArchiveJob(id, storeOk) /\ UNCHANGED <<dbName, vars, dbVars, crudVars, profVars, pollVars, syncVars, scrapeVars>>
    \/ \E owner \in Owners, include \in BOOLEAN, storeOk \in BOOLEAN :
          GetCompanyJobs(owner, include, storeOk) /\ UNCHANGED <<dbName, vars, dbVars, crudVars, profVars, pollVars, syncVars, scrapeVars>>
    \/ \E id \in RepoIds, score \in Scores, storeOk \in BOOLEAN :
          JobUpdateEvaluation(id, score, storeOk) /\ UNCHANGED <<dbName, vars, dbVars, crudVars, profVars, pollVars, syncVars, scrapeVars>>
    \/ \E storeOk \in BOOLEAN :
          CompanyCleanupTestData(storeOk) /\ UNCHANGED <<dbName, vars, dbVars, crudVars, profVars, pollVars, syncVars, scrapeVars>>
    \/ \E storeOk \in BOOLEAN :
          JobCleanupTestData(storeOk) /\ UNCHANGED <<dbName, vars, dbVars, crudVars, profVars, pollVars, syncVars, scrapeVars>>

\* the managers at rest
SyncIdle ==
    /\ kind = "generic" /\ store = <<>> /\ nextId = 1 /\ index = <<>>
    /\ lastOp = NoOp /\ deleted = {}

\* the repositories alone
InitRepo ==
    /\ SyncIdle
    /\ RepoInit
    /\ Bound(TRUE)
    /\ DbInit
    /\ CrudInit
    /\ ProfIdle
    /\ PollIdle
    /\ SyncInit
    /\ ScrapeIdle

SpecRepo == InitRepo /\ [][RepoNext]_allVars

InitCleanup ==
    /\ SyncIdle
    /\ RepoInit
    /\ \E is_test \in BOOLEAN : Bound(is_test)
    /\ DbInit
    /\ CrudInit
    /\ ProfIdle
    /\ PollIdle
    /\ SyncInit
    /\ ScrapeIdle

\* the repositories on the production database or on the test database
SpecCleanup == InitCleanup /\ [][RepoNext]_allVars


\* ------------------------------------------------------------ next

\* the index() answer matters only when the call gets as far as index()
DefaultIO == [embedOk |-> TRUE, upsertOk |-> TRUE, seenAt |-> 1, how |-> "fetch", errAt |-> 0]

\* the store's availability matters only to a call that gets past validate()
WriteOk(k, e) == IF Validates(k) /\ ~Validate(e) THEN {TRUE} ELSE BOOLEAN

CreateIO(e, storeOk) ==
    IF (Validates(kind) /\ ~Validate(e)) \/ ~storeOk THEN {DefaultIO}
    ELSE IndexIO(kind, FALSE)

UpdateIO(id, e, storeOk) ==
    IF ~Validate(e) \/ ~storeOk \/ ~StoreUpdateModified(store, id, e)
    THEN {DefaultIO} ELSE IndexIO(kind, IndexVisible(index, id))

\* one of the rankings of a set of rankings (none when the set has none)
OneOf(R) == IF R = {} THEN {} ELSE {CHOOSE r \in R : TRUE}

\* the index answers a search can meet.  No ranking is looked at when the
\* query fails; when the store is down the first read raises, so one ranking
\* that needs a read stands for all of them
SearchHits(limit, searchOk, storeOk) ==
    IF ~searchOk THEN (IF storeOk THEN {<<>>} ELSE {})
    ELSE IF storeOk THEN Ranked(index, limit)
    ELSE OneOf({h \in Ranked(index, limit) : h # <<>>})

\* the same for find-similar; only the article wiring reads from the store
\* (the rankings that give the same ids after id itself is dropped count once)
FindSimilarMatches(id, limit, queryOk, storeOk) ==
    LET M == SimilarMatches(kind, index, id, limit)
        ids(m) == Take(Without(m, id), limit)
        rep(m) == CHOOSE n \in M : ids(n) = ids(m)
    IN  IF ~queryOk THEN (IF storeOk THEN {<<>>} ELSE {})
        ELSE IF kind \in {"generic", "company"} THEN (IF storeOk THEN M ELSE {})
        ELSE IF storeOk THEN {rep(m) : m \in M}
        ELSE OneOf({m \in M : ids(m) # <<>>})

\* the entities a caller can hand over: an Article may fail validate(); a
\* Company has no validate() and is given with its texts filled in
Inputs(k) == IF Validates(k) THEN Entity ELSE {e \in Entity : e.title # ""}

Next ==
    \/ \E e \in Inputs(kind) : \E storeOk \in WriteOk(kind, e) :
          \E io \in CreateIO(e, storeOk) :
             Create(e, storeOk, io) /\ UNCHANGED <<repoVars, dbVars, crudVars, profVars, pollVars, syncVars, scrapeVars>>
    \/ \E id \in Ids, e \in Entity : \E storeOk \in WriteOk(kind, e) :
          \E io \in UpdateIO(id, e, storeOk) :
             Update(id, e, storeOk, io) /\ UNCHANGED <<repoVars, dbVars, crudVars, profVars, pollVars, syncVars, scrapeVars>>
    \/ \E id \in Ids, storeOk \in BOOLEAN :
          \E d \in (IF storeOk /\ StoreHas(store, id) THEN DeleteIO ELSE {"applied"}) :
             Delete(id, storeOk, d) /\ UNCHANGED <<repoVars, dbVars, crudVars, profVars, pollVars, syncVars, scrapeVars>>
    \/ \E limit \in 1..MaxLimit, searchOk \in BOOLEAN, storeOk \in BOOLEAN :
          \E hits \in SearchHits(limit, searchOk, storeOk) :
             Search(limit, storeOk, searchOk, hits) /\ UNCHANGED <<repoVars, dbVars, crudVars, profVars, pollVars, syncVars, scrapeVars>>
    \/ \E id \in Ids, limit \in 1..MaxLimit, queryOk \in BOOLEAN, storeOk \in BOOLEAN :
          \E matches \in FindSimilarMatches(id, limit, queryOk, storeOk) :
             FindSimilar(id, limit, storeOk, queryOk, matches) /\ UNCHANGED <<repoVars, dbVars, crudVars, profVars, pollVars, syncVars, scrapeVars>>
    \/ \E id \in Ids : Settle(id) /\ UNCHANGED <<repoVars, dbVars, crudVars, profVars, pollVars, syncVars, scrapeVars>>

\* the storage managers alone: the repositories are not used
InitManagers ==
    /\ Init
    /\ RepoInit
    /\ Bound(FALSE)
    /\ DbInit
    /\ CrudInit
    /\ ProfIdle
    /\ PollIdle
    /\ SyncInit
    /\ ScrapeIdle

Spec == InitManagers /\ [][Next]_allVars

\* the entities the callers of the tag and evaluation operations create
\* the evaluation lists a caller of update can hold: what a read of the
\* company returned at some earlier moment, a prefix of the stored list
OlderEvaluations(id) ==
    IF StoreHas(store, id)
    THEN {SubSeq(store[id].evaluations, 1, n) : n \in 0..Len(store[id].evaluations)}
    ELSE {<<>>}

\* MongoDBCompanyStorage.update: $set of the whole document of the entity,
\* the evaluations list included
StorageUpdate(id, e, storeOk) ==
    /\ kind = "company"
    /\ UNCHANGED <<kind, nextId, deleted, index>>
    /\ IF ~storeOk
       THEN /\ lastOp' = [NoOp EXCEPT !.op = "storage.update", !.id = id, !.arg = e,
                            !.outcome = "StorageError", !.details = "store",
                            !.trace = << <<"store.update", id>> >>]
            /\ UNCHANGED store
       ELSE /\ store' = StoreUpdate(store, id, e)
            /\ lastOp' = [NoOp EXCEPT !.op = "storage.update", !.id = id, !.arg = e,
                            !.outcome = "ok",
                            !.details = IF StoreUpdateModified(store, id, e)
                                        THEN "True" ELSE "False",
                            !.trace = << <<"store.update", id>> >>]

WriteEntities(k) ==
    [title : {"a"}, tags : IF k = "article" THEN {<<>>, <<"x">>} ELSE {<<>>},
     evaluations : {<<>>}]

\* the Embedding Provider answers or fails; an upserted vector is visible at
\* the first verification fetch
WriteIO(reached) ==
    IF reached THEN {DefaultIO, [DefaultIO EXCEPT !.embedOk = FALSE, !.seenAt = 0]}
    ELSE {DefaultIO}

\* the articles update is called with: another tag list, the title kept
WriteUpdates == [title : {"a"}, tags : {<<>>, <<"y">>}, evaluations : {<<>>}]

\* whether a tag mutation of the manager gets as far as index()
TagWriteIndexes(id, newTags, storeOk) ==
    storeOk /\ StoreHas(store, id) /\ store[id].tags # newTags

WritesNext ==
    \/ \E e \in WriteEntities(kind), storeOk \in BOOLEAN : \E io \in WriteIO(storeOk) :
          Create(e, storeOk, io) /\ UNCHANGED <<repoVars, dbVars, crudVars, profVars, pollVars, syncVars, scrapeVars>>
    \/ \E id \in Ids, e \in WriteUpdates :
          \E io \in WriteIO(StoreUpdateModified(store, id, e)) :
             Update(id, e, TRUE, io) /\ UNCHANGED <<repoVars, dbVars, crudVars, profVars, pollVars, syncVars, scrapeVars>>
    \/ \E id \in Ids, T \in TagLists, storeOk \in BOOLEAN :
          \E newTags \in UnionLists(id, T) :
             \E io \in WriteIO(TagWriteIndexes(id, newTags, storeOk)) :
                AddTags(id, T, newTags, storeOk, io) /\ UNCHANGED <<repoVars, dbVars, crudVars, profVars, pollVars, syncVars, scrapeVars>>
    \/ \E id \in Ids, T \in TagLists, storeOk \in BOOLEAN :
          \E io \in WriteIO(storeOk /\ StoreHas(store, id)
                            /\ TagsWithout(store[id].tags, T) # store[id].tags) :
             RemoveTags(id, T, storeOk, io) /\ UNCHANGED <<repoVars, dbVars, crudVars, profVars, pollVars, syncVars, scrapeVars>>
    \/ \E id \in Ids, T \in TagLists, storeOk \in BOOLEAN :
          StorageAddTags(id, T, storeOk) /\ UNCHANGED <<repoVars, dbVars, crudVars, profVars, pollVars, syncVars, scrapeVars>>
    \/ \E id \in Ids, T \in TagLists, storeOk \in BOOLEAN :
          StorageRemoveTags(id, T, storeOk) /\ UNCHANGED <<repoVars, dbVars, crudVars, profVars, pollVars, syncVars, scrapeVars>>
    \/ \E id \in Ids, score \in Scores, storeOk \in BOOLEAN :
          \E io \in WriteIO(storeOk /\ StoreHas(store, id)) :
             AddEvaluation(id, score, storeOk, io) /\ UNCHANGED <<repoVars, dbVars, crudVars, profVars, pollVars, syncVars, scrapeVars>>
    \/ \E id \in Ids, storeOk \in BOOLEAN : \E evs \in OlderEvaluations(id) :
          StorageUpdate(id, [title |-> "a", tags |-> <<>>, evaluations |-> evs], storeOk)
             /\ UNCHANGED <<repoVars, dbVars, crudVars, profVars, pollVars, syncVars, scrapeVars>>

InitWrites ==
    /\ Init
    /\ kind \in {"article", "company"}
    /\ RepoInit
    /\ Bound(FALSE)
    /\ DbInit
    /\ CrudInit
    /\ ProfIdle
    /\ PollIdle
    /\ SyncInit
    /\ ScrapeIdle

\* the tag and evaluation operations of the article and company wirings
SpecWrites == InitWrites /\ [][WritesNext]_allVars

InitDb ==
    /\ SyncIdle
    /\ RepoInit
    /\ Bound(FALSE)
    /\ DbInit
    /\ CrudInit
    /\ ProfIdle
    /\ PollIdle
    /\ SyncInit
    /\ ScrapeIdle

\* the connection singleton alone
SpecDb == InitDb /\ [][DbNext]_allVars

InitCrud ==
    /\ Init
    /\ RepoInit
    /\ Bound(FALSE)
    /\ DbInit
    /\ CrudInit
    /\ ProfIdle
    /\ PollIdle
    /\ SyncInit
    /\ ScrapeIdle

\* the Primary Store adapters alone
SpecCrud == InitCrud /\ [][CrudNext]_allVars

InitProfile ==
    /\ SyncIdle
    /\ RepoInit
    /\ Bound(FALSE)
    /\ DbInit
    /\ CrudInit
    /\ capabilities \in CapabilityLists
    /\ vectorStore = "None"
    /\ profOp = NoProfOp
    /\ PollIdle
    /\ SyncInit
    /\ ScrapeIdle

\* the profile manager alone
SpecProfile == InitProfile /\ [][ProfileNext]_allVars

InitPoll ==
    /\ SyncIdle
    /\ RepoInit
    /\ Bound(FALSE)
    /\ DbInit
    /\ CrudInit
    /\ ProfIdle
    /\ poll = NoPoll
    /\ SyncInit
    /\ ScrapeIdle

\* one index() call after another; every backend call and every sleep of
\* the coroutine returns, so a loop that can make a pass makes it
SpecPoll == InitPoll /\ [][PollNext]_allVars /\ WF_allVars(FetchStep)

InitSync ==
    /\ SyncIdle
    /\ RepoInit
    /\ Bound(FALSE)
    /\ DbInit
    /\ CrudInit
    /\ ProfIdle
    /\ PollIdle
    /\ tasks = [t \in Tasks |-> IdleTask]
    /\ syncStore = {}
    /\ syncIndex = {}
    /\ syncNextId = 1
    /\ indexFailed = FALSE
    /\ ScrapeIdle

\* manager calls of several coroutines, interleaved at their awaits
SpecSync == InitSync /\ [][SyncNext]_allVars

InitScrape ==
    /\ SyncIdle
    /\ RepoInit
    /\ Bound(FALSE)
    /\ DbInit
    /\ CrudInit
    /\ ProfIdle
    /\ PollIdle
    /\ SyncInit
    /\ ScrapeIdle

\* one scrape() call
SpecScrape == InitScrape /\ [][ScrapeNext]_allVars

\* ================================================================ claims

\* C1: a create or update whose entity fails validate() ends with the
\* validation error, makes no Primary Store call and no index() call, and
\* leaves both backends as they were.
C1_ValidationRejectsWithoutSideEffects ==
    [][(lastOp'.op \in {"create", "update"} /\ Validates(kind)
        /\ lastOp'.arg.title = "")
       => /\ lastOp'.outcome = "StorageOperationError"
          /\ lastOp'.details = "Entity validation failed"
          /\ lastOp'.trace = <<>>
          /\ store' = store /\ nextId' = nextId /\ index' = index]_vars

\* an update with an invalid entity was rejected while both backends hold data
C1_Witness ==
    /\ lastOp.op = "update" /\ lastOp.arg.title = ""
    /\ lastOp.outcome = "StorageOperationError"
    /\ StoreHas(store, lastOp.id) /\ lastOp.id \in DOMAIN index

\* C2 (as stated): once the Primary Store write of create / update is done,
\* a failing index() (False, a raised error, exhausted verification) leaves
\* the reported outcome a success and the entity readable from the store.
C2_IndexFailureKeepsSuccess ==
    (/\ lastOp.op \in {"create", "update"}
     /\ Len(lastOp.trace) = 2
     /\ lastOp.idx.ret \in {"False", "raise"})
    => /\ lastOp.outcome = "ok"
       /\ StoreHas(store, lastOp.id)
       /\ store[lastOp.id] = lastOp.arg

\* C3 (as stated): delete of an existing id removes it from the Primary Store
\* before the index delete is attempted, and a failing index delete (False or
\* a raised error) still lets the call report success with the id absent.
C3_IndexDeleteFailureKeepsSuccess ==
    (lastOp.op = "delete" /\ Len(lastOp.trace) = 2)
    => /\ lastOp.trace = << <<"store.delete", lastOp.id>>, <<"index.delete", lastOp.id>> >>
       /\ ~StoreHas(store, lastOp.id)
       /\ lastOp.outcome = "ok"

\* C4: a search fails only because the index query or a Primary Store read
\* raised, never because of a stale id; when it succeeds its result is the
\* store's entities of the returned ids that the store holds, in the order the
\* index ranked them.
C4_StaleIdsOmittedInRankOrder ==
    lastOp.op = "search"
    => /\ lastOp.outcome = "ok" \/ lastOp.details \in {"index", "store"}
       /\ (lastOp.outcome = "ok" /\ lastOp.idx.ret = "ids")
          => LET held(i) == StoreHas(store, i)
                 kept == SelectSeq(lastOp.hits, held)
             IN  lastOp.result = [j \in 1..Len(kept) |-> StoreRead(store, kept[j])]

\* the index ranked a stale id first and a stored one after it
C4_Witness ==
    /\ lastOp.op = "search" /\ lastOp.outcome = "ok"
    /\ Len(lastOp.hits) = 2
    /\ ~StoreHas(store, lastOp.hits[1])
    /\ StoreHas(store, lastOp.hits[2])
    /\ Len(lastOp.result) = 1

\* C5 (as stated, its first half): when the index search() raises, the
\* manager's search does not propagate the error and answers from the Primary
\* Store alone.
C5_SearchFallsBackWhenIndexRaises ==
    (lastOp.op = "search" /\ lastOp.idx.ret = "raise")
    => /\ lastOp.outcome = "ok"
       /\ \A i \in 1..Len(lastOp.result) : StoreHas(store, lastOp.result[i].id)

\* C6 (as stated): index() returns True only if a fetch-by-id of the same
\* call observed the id after the upsert, and returns False when the
\* verification attempts are used up without it.
C6_TrueOnlyOnFetchFalseOnExhaustion ==
    (lastOp.op \in {"create", "update"} /\ lastOp.idx.upserted)
    => /\ lastOp.idx.ret = "True" => lastOp.idx.seenBy = "fetch"
       /\ (lastOp.idx.seenBy = "none" /\ lastOp.idx.attempts = MaxRetries(kind))
          => lastOp.idx.ret = "False"

\* C7 (amended): an update of an id the Primary Store does not hold makes no
\* index() call and leaves both backends unchanged; it ends with
\* EntityNotFoundError when the entity passes validate() and the store call
\* returns, with the validation error when the entity fails validate(), and
\* with the store's error when the store call raises.
C7_UpdateAbsentChangesNothing ==
    [][(lastOp'.op = "update" /\ ~StoreHas(store, lastOp'.id))
       => /\ store' = store /\ index' = index /\ nextId' = nextId
          /\ \A i \in 1..Len(lastOp'.trace) : lastOp'.trace[i][1] # "index.index"
          /\ IF lastOp'.arg.title = ""
             THEN /\ lastOp'.outcome = "StorageOperationError"
                  /\ lastOp'.details = "Entity validation failed"
             ELSE \/ lastOp'.outcome = "EntityNotFoundError"
                  \/ /\ lastOp'.outcome = "StorageOperationError"
                     /\ lastOp'.details = "store"]_vars

\* C7 (as stated): every update of an id the Primary Store does not hold ends
\* with NotFound, without an index() call or a change to either backend.
C7_UpdateAbsentIsNotFound ==
    [][(lastOp'.op = "update" /\ ~StoreHas(store, lastOp'.id))
       => /\ lastOp'.outcome = "EntityNotFoundError"
          /\ store' = store /\ index' = index
          /\ \A i \in 1..Len(lastOp'.trace) : lastOp'.trace[i][1] # "index.index"]_vars

\* a valid entity was sent to an id that was deleted, whose vector the index
\* still holds
C7_Witness ==
    /\ lastOp.op = "update" /\ lastOp.outcome = "EntityNotFoundError"
    /\ lastOp.arg.title # ""
    /\ ~StoreHas(store, lastOp.id)
    /\ lastOp.id \in DOMAIN index

\* C8: in create, every index() call is for the id the Primary Store create
\* has just returned; when the Primary Store create raises, the caller gets
\* the error, index() is not called and the index is unchanged.
C8_IndexOnlyAfterStoreCreate ==
    [][lastOp'.op = "create"
       => /\ \A i \in 1..Len(lastOp'.trace) :
                lastOp'.trace[i][1] = "index.index"
                => /\ i > 1
                   /\ lastOp'.trace[i - 1] = <<"store.create", lastOp'.trace[i][2]>>
                   /\ lastOp'.trace[i][2] # 0
                   /\ ~StoreHas(store, lastOp'.trace[i][2])
                   /\ StoreHas(store', lastOp'.trace[i][2])
          /\ (\E i \in 1..Len(lastOp'.trace) : lastOp'.trace[i] = <<"store.create", 0>>)
             => /\ lastOp'.outcome = "StorageOperationError"
                /\ lastOp'.trace = << <<"store.create", 0>> >>
                /\ index' = index /\ store' = store]_vars

\* a create was refused by the Primary Store while the backends hold data
C8_Witness ==
    /\ lastOp.op = "create" /\ lastOp.outcome = "StorageOperationError"
    /\ lastOp.trace = << <<"store.create", 0>> >>
    /\ store # <<>> /\ index # <<>>

C11_FindSimilarEmptyWhenIndexRaises ==
    (lastOp.op = "find_similar" /\ lastOp.idx.ret \in {"raise", "empty"})
    => /\ lastOp.outcome = "ok"
       /\ lastOp.result = <<>>

\* C12 (as stated): what the index adapter's find_similar(id, limit) returns
\* (ids in hits, entities in result for the company adapter) never holds id
\* itself and never more than limit elements.
C12_SimilarExcludesSelfWithinLimit ==
    lastOp.op = "find_similar"
    => /\ Len(lastOp.hits) <= lastOp.limit
       /\ \A i \in 1..Len(lastOp.hits) : lastOp.hits[i] # lastOp.id
       /\ kind = "company"
          => /\ Len(lastOp.result) <= lastOp.limit
             /\ \A i \in 1..Len(lastOp.result) : lastOp.result[i].id # lastOp.id

\* C13 (as stated): every update that reports success leaves the stored
\* updated_at strictly greater than it was and the stored created_at as it
\* was.
C13_UpdateAdvancesUpdatedAtKeepsCreatedAt ==
    [][(repoOp'.op = "company.update" /\ repoOp'.outcome = "True")
       => /\ companies'[repoOp'.id].updated_at > companies[repoOp'.id].updated_at
          /\ companies'[repoOp'.id].created_at = companies[repoOp'.id].created_at]_allVars

\* C14 (as stated): update and delete of an id that is absent from the store
\* return False, never raise, and leave the store unchanged.
C14_AbsentIdReturnsFalseNeverThrows ==
    [][(repoOp'.op \in {"company.update", "company.delete"}
        /\ repoOp'.id \notin DOMAIN companies)
       => /\ repoOp'.outcome = "False"
          /\ companies' = companies]_allVars

\* C14 (amended): update and delete of an absent id leave the store unchanged;
\* they return False when the id is a well-formed ObjectId and the backend
\* answers, and raise StorageError when the id is malformed or the backend
\* fails.
C14_AbsentIdFalseOrStorageError ==
    [][(repoOp'.op \in {"company.update", "company.delete"}
        /\ repoOp'.id \notin DOMAIN companies)
       => /\ repoOp'.outcome = IF WellFormed(repoOp'.id) /\ repoOp'.storeOk
                               THEN "False" ELSE "StorageError"
          /\ companies' = companies]_allVars

\* an update of a well-formed absent id returned False while the collection
\* holds another company
C14_Witness ==
    /\ repoOp.op = "company.update" /\ repoOp.outcome = "False"
    /\ WellFormed(repoOp.id) /\ repoOp.id \notin DOMAIN companies
    /\ companies # <<>>

\* C15 (as stated): an update whose stage has a smaller ordinal than the
\* stored stage is rejected with a validation error and writes nothing.
C15_BackwardStageRejected ==
    [][(repoOp'.op = "company.update" /\ repoOp'.id \in DOMAIN companies
        /\ repoOp'.storeOk
        /\ repoOp'.stage < companies[repoOp'.id].stage)
       => /\ repoOp'.outcome = "ValueError"
          /\ companies' = companies]_allVars

\* C17 (as stated): an evaluation update that reports success appends exactly
\* one record to the evaluation records the entity holds; the records held
\* before are a prefix of those held afterwards.
C17_EvaluationAppendsToHistory ==
    [][(repoOp'.op = "job.update_evaluation" /\ repoOp'.outcome = "True")
       => LET old == jobs[repoOp'.id].evaluations
              new == jobs'[repoOp'.id].evaluations
          IN  /\ Len(new) = Len(old) + 1
              /\ SubSeq(new, 1, Len(old)) = old]_allVars

\* C16 (as stated): an evaluation write whose score lies outside [0,1] fails
\* and leaves the stored entity and the index as they were.
C16_OutOfRangeScoreRejected ==
    [][(lastOp'.op = "add_evaluation" /\ ~ScoreInRange(lastOp'.score))
       => /\ lastOp'.outcome # "ok"
          /\ store' = store /\ index' = index]_vars

\* C18 (as stated): add_tags on a stored article succeeds and leaves the tag
\* set equal to the union of the stored tags and T, without duplicates, also
\* when every tag of T is already there; a remove_tags that succeeds leaves
\* the set difference.
C18_TagMutationsAreSetOperations ==
    [][/\ (lastOp'.op = "add_tags" /\ StoreHas(store, lastOp'.id)
           /\ lastOp'.details # "store")
          => /\ lastOp'.outcome = "ok"
             /\ SetOf(store'[lastOp'.id].tags)
                  = SetOf(store[lastOp'.id].tags) \cup SetOf(lastOp'.tags)
             /\ Len(store'[lastOp'.id].tags) = Cardinality(SetOf(store'[lastOp'.id].tags))
       /\ (lastOp'.op = "remove_tags" /\ lastOp'.outcome = "ok")
          => SetOf(store'[lastOp'.id].tags)
               = SetOf(store[lastOp'.id].tags) \ SetOf(lastOp'.tags)]_vars

\* C19 (as stated): after a create, update, tag mutation or evaluation append
\* whose index() succeeds the index holds for the id exactly the metadata
\* derived from the entity now stored, and no step changes a stored entity
\* without calling index() for it.
C19_StoreWritesAreReindexed ==
    [][/\ (lastOp'.op \in {"create", "update", "add_tags", "remove_tags", "add_evaluation"}
           /\ lastOp'.outcome = "ok" /\ lastOp'.idx.ret \in {"True", "None"})
          => /\ lastOp'.id \in DOMAIN index'
             /\ index'[lastOp'.id].meta = MetaOf(kind, store'[lastOp'.id])
       /\ \A id \in (DOMAIN store) \cap (DOMAIN store') :
             store'[id] # store[id]
             => \E i \in 1..Len(lastOp'.trace) : lastOp'.trace[i] = <<"index.index", id>>]_vars

\* C20: as long as reset_instance() has not run, however the get_instance()
\* callers interleave, one handle has been constructed at most and index
\* creation has been started once at most, by the caller that called first,
\* and every caller that get_instance() returned to holds that handle.
C20_OneHandleOneIndexCreation ==
    resets = 0
    => /\ Len(creators) <= 1
       /\ indexRuns = Len(creators)
       /\ creators # <<>> => creators[1] = callOrder[1]
       /\ \A c \in Callers : pc[c] = "done" => got[c] = 1 /\ creators # <<>>

\* three callers overlapped: the first created the handle, the second waited
\* for the lock and got the same handle, the third has just been woken
C20_Witness ==
    /\ resets = 0 /\ Len(creators) = 1 /\ indexRuns = 1
    /\ \E c1, c2, c3 \in Callers :
          /\ c1 # c2 /\ creators[1] = c1
          /\ pc[c1] = "done" /\ got[c1] = 1
          /\ pc[c2] = "done" /\ got[c2] = 1
          /\ pc[c3] = "woken"

\* C21 (as stated): reading the id create(e) returned yields an entity equal
\* to e in every field but the generated id, and a read of an id whose delete
\* succeeded finds nothing.
C21_ReadAfterCreateEqualsEntity ==
    (crudOp.op = "read" /\ crudOp.outcome = "ok")
    => /\ crudOp.id \in DOMAIN store
          => [crudOp.result EXCEPT !.id = "None"] = crudOp.made[crudOp.id]
       /\ crudOp.id \in deleted => crudOp.result = None

\* C22: an archive_job that returns True leaves the job with active = False
\* and archived_at set; a job that has been archived is inactive for as long
\* as it is stored; get_company_jobs of its owner returns it when archived
\* jobs are asked for and does not return it otherwise.
C22_ArchivedJobsListedOnlyOnRequest ==
    [][/\ (repoOp'.op = "job.archive" /\ repoOp'.outcome = "True")
          => /\ ~jobs'[repoOp'.id].active
             /\ jobs'[repoOp'.id].archived_at # NotArchived
       /\ \A id \in DOMAIN jobs :
             /\ jobs[id].archived_at # NotArchived
             /\ id \in DOMAIN jobs'
             => /\ ~jobs'[id].active
                /\ jobs'[id].archived_at # NotArchived
                /\ (repoOp'.op = "job.get_company_jobs" /\ repoOp'.outcome = "ok"
                    /\ repoOp'.owner = jobs[id].company_id)
                   => (id \in repoOp'.found <=> repoOp'.include)]_allVars

\* an archived job was left out of its owner's list of active jobs
C22_Witness ==
    /\ repoOp.op = "job.get_company_jobs" /\ repoOp.outcome = "ok" /\ ~repoOp.include
    /\ \E id \in DOMAIN jobs :
          /\ jobs[id].company_id = repoOp.owner
          /\ jobs[id].archived_at # NotArchived /\ ~jobs[id].active
          /\ id \notin repoOp.found

\* C23: a match_requirements that returns has put every requirement in
\* exactly one class by its best weighted score: the matched skills are as
\* many as the requirements whose best is >= 0.8, the partial matches as many
\* as those with 0.4 <= best < 0.8, the missing skills are the remaining
\* requirements, and the three counts add up to the number of requirements,
\* on the semantic and on the traditional path.
C23_EveryRequirementInOneClass ==
    (profOp.op = "match_requirements" /\ profOp.outcome = "ok"
     /\ profOp.path \in {"semantic", "traditional"})
    => LET n == Len(profOp.reqs)
           hi == {i \in 1..n : Geq(profOp.best[i], <<8, 10>>)}
           mid == {i \in 1..n : /\ Geq(profOp.best[i], <<4, 10>>)
                                /\ ~Geq(profOp.best[i], <<8, 10>>)}
           low == (1..n) \ (hi \cup mid)
       IN  /\ Len(profOp.best) = n
           /\ Len(profOp.matched_skills) = Cardinality(hi)
           /\ Len(profOp.partial_matches) = Cardinality(mid)
           /\ Len(profOp.missing_skills) = Cardinality(low)
           /\ \A r \in ReqTexts :
                 Cardinality({i \in 1..Len(profOp.missing_skills) :
                                profOp.missing_skills[i] = r})
                 = Cardinality({i \in low : profOp.reqs[i] = r})
           /\ Len(profOp.matched_skills) + Len(profOp.partial_matches)
              + Len(profOp.missing_skills) = n

\* the traditional path classified one requirement as matched and another as
\* partial
C23_Witness ==
    /\ profOp.op = "match_requirements" /\ profOp.outcome = "ok"
    /\ profOp.path = "traditional"
    /\ Len(profOp.matched_skills) = 1 /\ Len(profOp.partial_matches) = 1

\* C24: the match_score a match_requirements reports equals
\* (matched + 0.5 * partial) / total over the lists it returns, lies between
\* 0 and 1, and is 0, with no division by zero, for an empty list of
\* requirements.
C24_MatchScoreIsWeightedShare ==
    (profOp.op = "match_requirements" /\ profOp.outcome = "ok")
    => LET n == Len(profOp.reqs)
           ms == profOp.match_score
       IN  /\ ms[2] > 0
           /\ 0 <= ms[1] /\ ms[1] <= ms[2]
           /\ n = 0 => ms[1] = 0
           /\ n > 0 => ms[1] * 2 * n
                       = (2 * Len(profOp.matched_skills)
                          + Len(profOp.partial_matches)) * ms[2]

\* the semantic path found one matched and one partial requirement and
\* reported 3/4
C24_Witness ==
    /\ profOp.op = "match_requirements" /\ profOp.outcome = "ok"
    /\ profOp.path = "semantic"
    /\ Len(profOp.matched_skills) = 1 /\ Len(profOp.partial_matches) = 1
    /\ profOp.match_score[1] * 4 = 3 * profOp.match_score[2]

\* C25: a search answered by the traditional search returns exactly the
\* capabilities whose relevance score is at or above the threshold, each
\* entry of the data source at most once, in order of non-increasing score,
\* and every relevance score lies between 0 and 1.
C25_LexicalResultsFilteredAndOrdered ==
    (profOp.op = "search_capabilities" /\ profOp.outcome = "ok"
     /\ profOp.path = "traditional")
    => LET res == profOp.result
           score(i) == CalculateRelevanceScore(Lower(profOp.query),
                                               capabilities[i].name,
                                               capabilities[i].experience,
                                               capabilities[i].examples)
           keep == {i \in 1..Len(capabilities) : Geq(score(i), profOp.threshold)}
       IN  /\ \A i \in 1..Len(capabilities) :
                 LET x == score(i) IN x[2] > 0 /\ 0 <= x[1] /\ x[1] <= x[2]
           /\ \E f \in [1..Len(res) -> keep] :
                 /\ \A j, k \in 1..Len(res) : j # k => f[j] # f[k]
                 /\ {f[j] : j \in 1..Len(res)} = keep
                 /\ \A j \in 1..Len(res) :
                       res[j] = WithScore(capabilities[f[j]], score(f[j]))
           /\ \A j, k \in 1..Len(res) :
                 j < k => Geq(res[j].match_score, res[k].match_score)

\* the traditional search returned the second capability of the data source
\* ahead of the first, its score being strictly greater
C25_Witness ==
    /\ profOp.op = "search_capabilities" /\ profOp.outcome = "ok"
    /\ profOp.path = "traditional"
    /\ Len(capabilities) = 2 /\ Len(profOp.result) = 2
    /\ Gt(profOp.result[1].match_score, profOp.result[2].match_score)
    /\ profOp.result[1].name = capabilities[2].name
    /\ profOp.result[1].name # capabilities[1].name

\* C26: a search_capabilities whose query is empty or only whitespace returns
\* an empty list having called nothing: not the data source, not the
\* embeddings or the vector store, not the traditional search; the vector
\* store is left as it was.
C26_BlankQueryCallsNothing ==
    [][(profOp'.op = "search_capabilities" /\ Strip(profOp'.query) = <<>>)
       => /\ profOp'.outcome = "ok"
          /\ profOp'.result = <<>>
          /\ profOp'.calls = <<>>
          /\ profOp'.path = "none"
          /\ vectorStore' = vectorStore]_allVars

\* a whitespace-only query got an empty answer from a data source that holds
\* capabilities
C26_Witness ==
    /\ profOp.op = "search_capabilities" /\ profOp.query = <<" ">>
    /\ capabilities # <<>>
    /\ profOp.result = <<>> /\ profOp.calls = <<>>

\* C28: a search_capabilities returns a list, an empty one when the
\* traditional search raises, and never throws.
C28_SearchNeverThrows ==
    profOp.op = "search_capabilities" => profOp.outcome = "ok"

\* C27: an index() call during which the Embedding Provider fails ends with
\* the failure reported (StorageError from the generic adapter, False from
\* the article and company adapters), upserts no vector and leaves the
\* Search Index, the entry of the id included, exactly as it was.
C27_EmbeddingFailureUpsertsNothing ==
    [][(lastOp' # lastOp /\ lastOp'.idx.embedFailed)
       => /\ lastOp'.idx.ret \in {"raise", "False"}
          /\ ~lastOp'.idx.upserted
          /\ index' = index]_allVars

\* the Embedding Provider failed while an update was being indexed, and the
\* index still holds the entry made before the update
C27_Witness ==
    /\ lastOp.op = "update" /\ lastOp.idx.embedFailed
    /\ lastOp.id \in DOMAIN index /\ lastOp.id \in DOMAIN store
    /\ index[lastOp.id].meta # MetaOf(kind, store[lastOp.id])

\* C29: an update ends with EntityNotFoundError only when the id is absent
\* from the Primary Store: an update of a stored id with the content it
\* already has is not reported as not found.
C29_NotFoundOnlyWhenAbsent ==
    [][(lastOp'.op = "update" /\ lastOp'.outcome = "EntityNotFoundError")
       => lastOp'.id \notin DOMAIN store]_allVars

\* C30: index() terminates: its verification loop makes at most the
\* configured number of attempts (3 generic, 5 article and company), makes no
\* attempt after one that confirmed the id, has returned or raised once the
\* last attempt is made, whatever the fetches observed, and every call that
\* starts verifying ends.
C30_IndexTerminates ==
    /\ [](/\ Len(poll.obs) <= MaxRetries(poll.kind)
          /\ \A i \in 1..(Len(poll.obs) - 1) : poll.obs[i] \notin {"seen", "query"}
          /\ Len(poll.obs) = MaxRetries(poll.kind)
             => poll.pc = "done" /\ poll.ret \in {"True", "False", "None", "raise"}
          /\ (poll.pc = "done" /\ poll.ret \in {"True", "None"})
             => poll.obs[Len(poll.obs)] \in {"seen", "query"})
    /\ (poll.pc = "verify") ~> (poll.pc = "done")

\* every fetch of an article index() raised, and the call returned False
\* after the fifth
C30_Witness ==
    /\ poll.pc = "done" /\ poll.kind = "article" /\ poll.ret = "False"
    /\ Len(poll.obs) = ArticleMaxRetries
    /\ \A i \in 1..Len(poll.obs) : poll.obs[i] = "error"

\* C31: whenever no manager call is running and no index() or
\* delete_from_index() call has failed, the Search Index holds exactly the
\* ids the Primary Store holds.
C31_IndexIdsEqualStoreIds ==
    ((\A t \in Tasks : tasks[t].pc = "idle") /\ ~indexFailed)
    => syncIndex = syncStore

\* C32: the ordinal of the stage stored for a company never decreases,
\* whatever update() calls are made and in whatever order their writes reach
\* the collection.
C32_StoredStageNeverDecreases ==
    [][\A id \in (DOMAIN companies) \cap (DOMAIN companies') :
         companies'[id].stage >= companies[id].stage]_allVars

\* C33: no step loses or truncates an evaluation record whose append was
\* reported successful: the evaluation list stored for an id before a step
\* is a prefix of the list stored for it after the step, so that a
\* full-entity update carrying an older list never overwrites a record
\* appended in the meantime
C33_AppendedEvaluationsKept ==
    [][\A id \in (DOMAIN store) \cap (DOMAIN store') :
         /\ Len(store'[id].evaluations) >= Len(store[id].evaluations)
         /\ SubSeq(store'[id].evaluations, 1, Len(store[id].evaluations))
              = store[id].evaluations]_allVars

\* C34: a get_instance() that returns, whatever reset_instance() calls it
\* raced with, returns a handle (never None) whose connection has not been
\* closed; a get_instance() after a reset therefore returns a fresh handle
C34_ReturnedHandleIsOpen ==
    [][\A c \in Callers :
         (pc[c] # "done" /\ pc'[c] = "done")
         => (got'[c] # 0 /\ got'[c] \notin closed')]_allVars

\* C35: when index creation fails inside get_instance(), the error leaves
\* the call and no handle stays assigned, so that a later get_instance()
\* finds no instance and initializes again
C35_FailedInitializationRetainsNothing ==
    [][\A c \in Callers :
         (pc[c] = "indexing" /\ pc'[c] = "failed") => NoInstance(instance')]_allVars

\* C36: the handle get_instance(is_test) returns is bound to the database
\* that call's flag selects, whatever flag an earlier caller used
C36_HandleBoundToRequestedDatabase ==
    \A c \in Callers :
       (pc[c] = "done" /\ got[c] # 0) => DatabaseOf(got[c]) = DbName(isTest[c])

\* C37: cleanup_test_data of a repository bound to a database that is not
\* the test database deletes nothing, and on the test database it leaves
\* the collection empty (when the backend carries out the delete)
C37_CleanupOnlyAndFullyOnTestDatabase ==
    [][/\ repoOp'.op = "company.cleanup_test_data"
          => IF Bound(TRUE) THEN (repoOp'.storeOk => companies' = <<>>)
             ELSE companies' = companies
       /\ repoOp'.op = "job.cleanup_test_data"
          => IF Bound(TRUE) THEN (repoOp'.storeOk => jobs' = <<>>)
             ELSE jobs' = jobs]_allVars

\* C38: scrape(url, retries) on a valid url returns a ScraperResponse after
\* at most retries client requests: at the first request that answers, with
\* the number of that attempt; after retries failures, with status 500,
\* empty html, the last error message and attempts = retries; an invalid url
\* raises ValueError before any request
C38_ScrapeReturnsResponseWithinRetries ==
    /\ Len(scrape.log) <= scrape.retries
    /\ scrape.pc = "raised"
       => ~ValidateUrl(scrape.url) /\ scrape.log = <<>>
    /\ scrape.pc = "returned"
       => /\ ValidateUrl(scrape.url)
          /\ scrape.result.type = "ScraperResponse"
          /\ scrape.result.n = Len(scrape.log)
          /\ \A i \in 1..(Len(scrape.log) - 1) : ~scrape.log[i].ok
          /\ IF scrape.log # <<>> /\ scrape.log[Len(scrape.log)].ok
             THEN scrape.result.status = scrape.log[Len(scrape.log)].status
             ELSE /\ Len(scrape.log) = scrape.retries
                  /\ scrape.result.status = 500
                  /\ scrape.result.html = ""
                  /\ scrape.log # <<>>
                     => scrape.result.error = scrape.log[Len(scrape.log)].error

====
